---- MODULE Spec2Model ----
(***************************************************************************)
(* Project Manager (Express + MySQL): the relational store, the session   *)
(* store, the schema bootstrap and initializeApp() of database-init.js,    *)
(* the mounted routes of routes/auth.js and                                *)
(* routes/project.js, the guard functions of middleware/auth.js and the    *)
(* sanitizers and rule validators of middleware/security.js and            *)
(* middleware/validation.js.                                               *)
(*                                                                         *)
(* Text values (usernames, emails, passwords, titles) are sequences of     *)
(* one-character strings, so trimming, length and pattern checks are       *)
(* computed.  A request is handled in steps: one step per stretch of       *)
(* handler code between two awaits, the awaited SQL statement included.    *)
(* A statement fails on one of its own constraints (UNIQUE, FOREIGN KEY);  *)
(* the store is otherwise reliable except in SpecFailure, where any        *)
(* awaited statement may fail and the handler's catch block answers.       *)
(***************************************************************************)
EXTENDS Integers, Sequences, FiniteSets, TLC

VARIABLES
    users,      \* rows of table users
    projects,   \* rows of table projects
    nextUid,    \* AUTO_INCREMENT counter of users.uid
    nextPid,    \* AUTO_INCREMENT counter of projects.pid
    schema,     \* which of the database and its two tables exist
    sessions,   \* the session store: client -> session data
    reqs,       \* the requests in flight, one record per slot
    setup,      \* the setupDatabase() run in progress
    setupRuns,  \* completed setupDatabase() runs
    now,        \* the wall clock (Date.now()), in milliseconds
    attempts,   \* the table of authRateLimit: client address -> attempts counted
    init        \* the initializeApp() call of database-init.js

storeVars == <<users, projects, nextUid, nextPid, schema>>
vars == <<users, projects, nextUid, nextPid, schema, sessions, reqs, setup, setupRuns, now,
          attempts, init>>

---------------------------------------------------------------------------
(* Bounds of the model *)

MaxReq == 2          \* request slots: requests in flight at once
MaxSessions == 2     \* clients (session cookies)
MaxUsers == 3        \* registrations are admitted while fewer uids are in use
MaxProjects == 5     \* project creations are admitted while fewer pids are in use
MaxSetupRuns == 2    \* setupDatabase() runs
MaxTicks == 3        \* clock ticks
MaxTextLen == 3      \* characters of a text put through sanitizeInput

Req == 1..MaxReq
Sid == 1..MaxSessions

---------------------------------------------------------------------------
(* Text *)

Space == " "

LowerChars == {"a", "b", "c", "d", "e", "f", "g", "h", "i", "j", "k", "l", "m",
               "n", "o", "p", "q", "r", "s", "t", "u", "v", "w", "x", "y", "z"}
UpperChars == {"A", "B", "C", "D", "E", "F", "G", "H", "I", "J", "K", "L", "M",
               "N", "O", "P", "Q", "R", "S", "T", "U", "V", "W", "X", "Y", "Z"}
DigitChars == {"0", "1", "2", "3", "4", "5", "6", "7", "8", "9"}

RECURSIVE Rep(_, _)
Rep(c, n) == IF n = 0 THEN <<>> ELSE Append(Rep(c, n - 1), c)

RECURSIVE TrimLeft(_)
TrimLeft(s) == IF s # <<>> /\ Head(s) = Space THEN TrimLeft(Tail(s)) ELSE s

RECURSIVE TrimRight(_)
TrimRight(s) ==
    IF s # <<>> /\ s[Len(s)] = Space THEN TrimRight(SubSeq(s, 1, Len(s) - 1)) ELSE s

\* String.prototype.trim / express-validator .trim()
Trim(s) == TrimRight(TrimLeft(s))

\* isLength({min, max})
IsLength(s, min, max) == Len(s) >= min /\ Len(s) <= max

WordChars == LowerChars \cup UpperChars \cup DigitChars \cup {"_"}
EmailChars == LowerChars \cup UpperChars \cup DigitChars \cup {".", "_", "-", "@"}

\* /^[a-zA-Z0-9_]+$/
MatchesWord(s) ==
    /\ s # <<>>
    /\ \A i \in 1..Len(s) : s[i] \in WordChars

\* /^(?=.*[a-z])(?=.*[A-Z])(?=.*\d)/
MatchesPasswordPattern(s) ==
    /\ \E i \in 1..Len(s) : s[i] \in LowerChars
    /\ \E i \in 1..Len(s) : s[i] \in UpperChars
    /\ \E i \in 1..Len(s) : s[i] \in DigitChars

LowerOf(c) ==
    IF c \notin UpperChars THEN c ELSE
    CASE c = "A" -> "a" [] c = "B" -> "b" [] c = "C" -> "c" [] c = "D" -> "d"
      [] c = "E" -> "e" [] c = "F" -> "f" [] c = "G" -> "g" [] c = "H" -> "h"
      [] c = "I" -> "i" [] c = "J" -> "j" [] c = "K" -> "k" [] c = "L" -> "l"
      [] c = "M" -> "m" [] c = "N" -> "n" [] c = "O" -> "o" [] c = "P" -> "p"
      [] c = "Q" -> "q" [] c = "R" -> "r" [] c = "S" -> "s" [] c = "T" -> "t"
      [] c = "U" -> "u" [] c = "V" -> "v" [] c = "W" -> "w" [] c = "X" -> "x"
      [] c = "Y" -> "y" [] c = "Z" -> "z" [] OTHER -> c

AtPositions(s) == {i \in 1..Len(s) : s[i] = "@"}

\* validator.isEmail: one "@", a non-empty local part, a dotted domain with no
\* empty label, and no character outside letters, digits, ".", "_", "-", "@"
IsEmail(s) ==
    /\ Cardinality(AtPositions(s)) = 1
    /\ \A i \in 1..Len(s) : s[i] \in EmailChars
    /\ LET at == CHOOSE i \in AtPositions(s) : TRUE
       IN  /\ at > 1
           /\ \E i \in (at + 2)..(Len(s) - 1) : s[i] = "."
           /\ s[at + 1] # "."
           /\ s[Len(s)] # "."

\* validator.normalizeEmail (all_lowercase): the address in lower case
RECURSIVE NormalizeEmail(_)
NormalizeEmail(s) ==
    IF s = <<>> THEN <<>> ELSE <<LowerOf(Head(s))>> \o NormalizeEmail(Tail(s))

\* bcrypt.hash / bcrypt.compare: a one-way image of the password
Hash(pw) == [bcrypt |-> pw]
Compare(pw, hash) == hash = Hash(pw)

---------------------------------------------------------------------------
(* Dates: a date string "YYYY-MM-DD" is <<YYYY, MM, DD>>, "" is <<>> *)

NoDate == <<>>

\* validator.isISO8601
IsISO8601(d) == Len(d) = 3 /\ d[2] \in 1..12 /\ d[3] \in 1..31

\* new Date(value): a day number that orders dates as their timestamps do
DateValue(d) == (d[1] * 12 + d[2]) * 31 + d[3]

Phases == {"design", "development", "testing", "deployment", "complete"}

---------------------------------------------------------------------------
(* The store *)

TestUserName == <<"t", "e", "s", "t", "u", "s", "e", "r">>
TestUserEmail == <<"t", "e", "s", "t", "@", "e", "x", "a", "m", "p", "l", "e", ".", "c", "o", "m">>
\* generatePassword(): the random password the seeding script draws and
\* prints, one of these
TestUserPassword == <<"r", "4", "N", "d", "0", "m", "P", "w">>
GeneratedPasswords == {TestUserPassword, <<"k", "Q", "7", "+", "z", "/", "x", "A">>}

SampleProjects ==
    << [title |-> <<"E", "-", "c", "o", "m", "m", "e", "r", "c", "e", " ", "S", "i", "t", "e">>,
        start_date |-> <<2024, 2, 1>>,
        short_description |-> <<"O", "n", "l", "i", "n", "e", " ", "s", "h", "o", "p", "p", "i", "n", "g", " ", "p", "l", "a", "t", "f", "o", "r", "m", " ", "w", "i", "t", "h", " ", "p", "a", "y", "m", "e", "n", "t", " ", "i", "n", "t", "e", "g", "r", "a", "t", "i", "o", "n">>,
        phase |-> "development"],
       [title |-> <<"T", "a", "s", "k", " ", "M", "a", "n", "a", "g", "e", "r", " ", "A", "p", "p">>,
        start_date |-> <<2024, 1, 15>>,
        short_description |-> <<"M", "o", "b", "i", "l", "e", " ", "a", "p", "p", " ", "f", "o", "r", " ", "p", "e", "r", "s", "o", "n", "a", "l", " ", "t", "a", "s", "k", " ", "m", "a", "n", "a", "g", "e", "m", "e", "n", "t">>,
        phase |-> "testing"],
       [title |-> <<"L", "e", "g", "a", "c", "y", " ", "M", "i", "g", "r", "a", "t", "i", "o", "n">>,
        start_date |-> <<2023, 12, 10>>,
        short_description |-> <<"M", "o", "v", "i", "n", "g", " ", "o", "l", "d", " ", "s", "y", "s", "t", "e", "m", " ", "t", "o", " ", "m", "o", "d", "e", "r", "n", " ", "d", "a", "t", "a", "b", "a", "s", "e">>,
        phase |-> "complete"] >>

UserRow(uid, username, email, password) ==
    [uid |-> uid, username |-> username, email |-> email, password |-> password]

ProjectRow(pid, title, short_description, start_date, end_date, phase, uid) ==
    [pid |-> pid, title |-> title, short_description |-> short_description,
     start_date |-> start_date, end_date |-> end_date, phase |-> phase, uid |-> uid]

\* a users table without its UNIQUE constraints
UsersUniqueOkLax(username, email) == TRUE

\* username VARCHAR(50) UNIQUE, email VARCHAR(100) UNIQUE
UsersUniqueOk(username, email) ==
    \A u \in users : u.username # username /\ u.email # email

\* FOREIGN KEY (uid) REFERENCES users(uid), phase ENUM(...)
ProjectsInsertOk(phase, uid) ==
    /\ \E u \in users : u.uid = uid
    /\ phase \in Phases

SchemaNone == [db |-> FALSE, users |-> FALSE, projects |-> FALSE]
SchemaAll == [db |-> TRUE, users |-> TRUE, projects |-> TRUE]

---------------------------------------------------------------------------
(* Schema bootstrap: setupDatabase() *)

SetupIdle == [pc |-> "idle", insertId |-> 0, i |-> 0]

\* setupDatabase: getConnection()
SetupConnect ==
    /\ setup.pc \in {"idle", "done"}
    /\ setupRuns < MaxSetupRuns
    /\ setup' = [pc |-> "createDatabase", insertId |-> 0, i |-> 0]
    /\ UNCHANGED <<storeVars, sessions, reqs, setupRuns, now, attempts, init>>

\* createDatabase: CREATE DATABASE IF NOT EXISTS
CreateDatabase ==
    /\ setup.pc = "createDatabase"
    /\ schema' = [schema EXCEPT !.db = TRUE]
    /\ setup' = [setup EXCEPT !.pc = "usersTable"]
    /\ UNCHANGED <<users, projects, nextUid, nextPid, sessions, reqs, setupRuns, now, attempts, init>>

\* createTables: CREATE TABLE IF NOT EXISTS users
CreateUsersTableReset ==
    /\ setup.pc = "usersTable"
    /\ schema' = [schema EXCEPT !.users = TRUE]
    /\ users' = {}
    /\ setup' = [setup EXCEPT !.pc = "projectsTable"]
    /\ UNCHANGED <<projects, nextUid, nextPid, sessions, reqs, setupRuns, now, attempts, init>>

CreateUsersTable ==
    /\ setup.pc = "usersTable"
    /\ schema' = [schema EXCEPT !.users = TRUE]
    /\ users' = IF schema.users THEN users ELSE {}
    /\ setup' = [setup EXCEPT !.pc = "projectsTable"]
    /\ UNCHANGED <<projects, nextUid, nextPid, sessions, reqs, setupRuns, now, attempts, init>>

\* createTables: CREATE TABLE IF NOT EXISTS projects
CreateProjectsTable ==
    /\ setup.pc = "projectsTable"
    /\ schema' = [schema EXCEPT !.projects = TRUE]
    /\ projects' = IF schema.projects THEN projects ELSE {}
    /\ setup' = [setup EXCEPT !.pc = "sampleCount"]
    /\ UNCHANGED <<users, nextUid, nextPid, sessions, reqs, setupRuns, now, attempts, init>>

\* addSampleData: SELECT COUNT(*) FROM users; return when there are rows
SampleCount ==
    /\ setup.pc = "sampleCount"
    /\ IF Cardinality(users) > 0
       THEN /\ setup' = [setup EXCEPT !.pc = "done"]
            /\ setupRuns' = setupRuns + 1
       ELSE /\ setup' = [setup EXCEPT !.pc = "insertUser"]
            /\ UNCHANGED setupRuns
    /\ UNCHANGED <<storeVars, sessions, reqs, now, attempts, init>>

SampleInsertUserUnchecked ==
    /\ setup.pc = "insertUser"
    /\ \E plainPassword \in GeneratedPasswords :
           users' = users \cup {UserRow(nextUid, TestUserName, TestUserEmail, Hash(plainPassword))}
    /\ nextUid' = nextUid + 1
    /\ setup' = [pc |-> "insertProject", insertId |-> nextUid, i |-> 1]
    /\ UNCHANGED <<projects, nextPid, schema, setupRuns, sessions, reqs, now, attempts, init>>

\* addSampleData: INSERT INTO users ('testuser', hash, 'test@example.com');
\* a failing insert is caught and ends the seeding
SampleInsertUser ==
    /\ setup.pc = "insertUser"
    /\ \E plainPassword \in GeneratedPasswords :
           IF UsersUniqueOk(TestUserName, TestUserEmail)
           THEN /\ users' = users \cup
                       {UserRow(nextUid, TestUserName, TestUserEmail, Hash(plainPassword))}
                /\ nextUid' = nextUid + 1
                /\ setup' = [pc |-> "insertProject", insertId |-> nextUid, i |-> 1]
                /\ UNCHANGED setupRuns
           ELSE /\ setup' = [setup EXCEPT !.pc = "done"]
                /\ setupRuns' = setupRuns + 1
                /\ UNCHANGED <<users, nextUid>>
    /\ UNCHANGED <<projects, nextPid, schema, sessions, reqs, now, attempts, init>>

\* one sample project inserted for a user that is not there
SampleInsertProjectOrphan ==
    /\ setup.pc = "insertProject"
    /\ LET p == SampleProjects[setup.i]
       IN  projects' = projects \cup
               {ProjectRow(nextPid, p.title, p.short_description, p.start_date,
                           NoDate, p.phase, setup.insertId + 1)}
    /\ nextPid' = nextPid + 1
    /\ IF setup.i < Len(SampleProjects)
       THEN /\ setup' = [setup EXCEPT !.i = setup.i + 1]
            /\ UNCHANGED setupRuns
       ELSE /\ setup' = [setup EXCEPT !.pc = "done"]
            /\ setupRuns' = setupRuns + 1
    /\ UNCHANGED <<users, nextUid, schema, sessions, reqs, now, attempts, init>>

\* addSampleData: INSERT INTO projects, once per sample project
SampleInsertProject ==
    /\ setup.pc = "insertProject"
    /\ LET p == SampleProjects[setup.i]
       IN  projects' = projects \cup
               {ProjectRow(nextPid, p.title, p.short_description, p.start_date,
                           NoDate, p.phase, setup.insertId)}
    /\ nextPid' = nextPid + 1
    /\ IF setup.i < Len(SampleProjects)
       THEN /\ setup' = [setup EXCEPT !.i = setup.i + 1]
            /\ UNCHANGED setupRuns
       ELSE /\ setup' = [setup EXCEPT !.pc = "done"]
            /\ setupRuns' = setupRuns + 1
    /\ UNCHANGED <<users, nextUid, schema, sessions, reqs, now, attempts, init>>

SetupStep ==
    \/ SetupConnect
    \/ CreateDatabase
    \/ CreateUsersTable
    \/ CreateProjectsTable
    \/ SampleCount
    \/ SampleInsertUser
    \/ SampleInsertProject

---------------------------------------------------------------------------
(* Application start: initializeApp() of database-init.js *)

\* initializeApp not called; failed: a step of the setupDatabase() it awaits
\* has thrown; code: the exit code of the process, or -1 while it runs
InitIdle == [pc |-> "idle", failed |-> FALSE, code |-> -1]

\* initializeApp: await setupDatabase(), to the end of getConnection(); when
\* the connection fails, the catch block of setupDatabase logs the error, db is
\* undefined in finally, and setupDatabase returns
InitializeApp(connected) ==
    /\ init.pc = "idle"
    /\ setup.pc \in {"idle", "done"}
    /\ setupRuns < MaxSetupRuns
    /\ IF connected
       THEN /\ setup' = [pc |-> "createDatabase", insertId |-> 0, i |-> 0]
            /\ init' = [init EXCEPT !.pc = "setup"]
            /\ UNCHANGED setupRuns
       ELSE /\ setup' = [pc |-> "done", insertId |-> 0, i |-> 0]
            /\ setupRuns' = setupRuns + 1
            /\ init' = [init EXCEPT !.pc = "setup", !.failed = TRUE]
    /\ UNCHANGED <<storeVars, sessions, reqs, now, attempts>>

\* createDatabase or createTables throws: the catch block of setupDatabase
\* logs the error and does not throw it again, finally closes the connection,
\* and setupDatabase returns
SetupStepFails ==
    /\ setup.pc \in {"createDatabase", "usersTable", "projectsTable"}
    /\ setup' = [setup EXCEPT !.pc = "done"]
    /\ setupRuns' = setupRuns + 1
    /\ init' = IF init.pc = "setup" THEN [init EXCEPT !.failed = TRUE] ELSE init
    /\ UNCHANGED <<storeVars, sessions, reqs, now, attempts>>

\* initializeApp: setupDatabase() has returned; 'Database ready!',
\* 'Starting application...'
InitDatabaseReady ==
    /\ init.pc = "setup"
    /\ setup.pc = "done"
    /\ init' = [init EXCEPT !.pc = "starting"]
    /\ UNCHANGED <<storeVars, sessions, reqs, setup, setupRuns, now, attempts>>

\* initializeApp: require('./app.js') is resolved beside database-init.js, in
\* database/, where there is no app.js: it throws, and the catch block ends
\* the process with code 1
InitRequireApp ==
    /\ init.pc = "starting"
    /\ init' = [init EXCEPT !.pc = "exited", !.code = 1]
    /\ UNCHANGED <<storeVars, sessions, reqs, setup, setupRuns, now, attempts>>

---------------------------------------------------------------------------
(* Sessions, requests, responses *)

NoUser == [uid |-> 0, username |-> <<>>, email |-> <<>>]
NoRow == UserRow(0, <<>>, <<>>, Hash(<<>>))

SessionUserSwapped(uid, username, email) == [uid |-> uid, username |-> email, email |-> username]

\* req.session.user = { uid, username, email }
SessionUser(uid, username, email) == [uid |-> uid, username |-> username, email |-> email]

\* a session with nothing in it: what a client without a stored session gets
EmptySession ==
    [user |-> NoUser, returnTo |-> "", successMessage |-> "", errorMessage |-> "",
     lastActivity |-> 0, csrfToken |-> ""]

NoBody ==
    [username |-> <<>>, email |-> <<>>, password |-> <<>>, confirmPassword |-> <<>>,
     title |-> <<>>, short_description |-> <<>>, start_date |-> NoDate,
     end_date |-> NoDate, phase |-> "", _csrf |-> ""]

\* cleared: the name of the cookie the response clears, if it clears one
NoResp ==
    [status |-> 0, kind |-> "none", target |-> "", errors |-> {}, timeLeft |-> 0,
     cleared |-> ""]

Redirect(url) ==
    [status |-> 302, kind |-> "redirect", target |-> url, errors |-> {}, timeLeft |-> 0,
     cleared |-> ""]
Render(status, view, errors) ==
    [status |-> status, kind |-> "render", target |-> view, errors |-> errors, timeLeft |-> 0,
     cleared |-> ""]
Json(status, errors) ==
    [status |-> status, kind |-> "json", target |-> "", errors |-> errors, timeLeft |-> 0,
     cleared |-> ""]

IdleReq ==
    [pc |-> "idle", route |-> "", sid |-> 1, sess |-> EmptySession, sess0 |-> EmptySession,
     body |-> NoBody, pid |-> 0, errors |-> {}, found |-> NoRow,
     handler |-> FALSE, resp |-> NoResp, at |-> 0, xhr |-> FALSE, userAttempts |-> 0]

\* a slot is free when it holds no request, or one that has been answered
Free(r) == reqs[r].pc \in {"idle", "done"}

\* app.use(session(...)), body parsers: a request arrives on the first free slot
\* and its session is loaded from the store
Arrives(r) ==
    /\ Free(r)
    /\ \A q \in Req : q < r => ~Free(q)
    /\ schema = SchemaAll

New(s, route, body, pid) ==
    [IdleReq EXCEPT !.pc = "route", !.route = route, !.sid = s,
                    !.sess = sessions[s], !.sess0 = sessions[s],
                    !.body = body, !.pid = pid, !.at = now]

\* express-session at the end of a response: the request's session is written
\* back when it differs from what was loaded (resave: false)
SaveSession(rec) ==
    IF rec.sess # rec.sess0 THEN [sessions EXCEPT ![rec.sid] = rec.sess] ELSE sessions

\* the response is sent and the request is over: what is left of it is what it
\* asked, whether its handler ran, what it found and the response
Done(rec, resp) ==
    [rec EXCEPT !.pc = "done", !.sess = EmptySession, !.sess0 = EmptySession, !.resp = resp]

\* a request ends: its response, and its session written back
Finish(r, rec, resp) ==
    /\ reqs' = [reqs EXCEPT ![r] = Done(rec, resp)]
    /\ sessions' = SaveSession(rec)

\* a request goes on to its next await
Goto(r, rec, pc) ==
    /\ reqs' = [reqs EXCEPT ![r] = [rec EXCEPT !.pc = pc]]
    /\ UNCHANGED sessions

InFlight(route) ==
    Cardinality({q \in Req : reqs[q].route = route /\ ~Free(q)})

At(r, route, pc) == reqs[r].route = route /\ reqs[r].pc = pc

---------------------------------------------------------------------------
(* routes/auth.js *)

MinUsername == 3
MaxUsername == 50
MinPassword == 6

RequireAuthOpen(rec) == TRUE

\* requireAuth of routes/auth.js: does the request pass
RequireAuth(rec) == rec.sess.user # NoUser

\* requireAuth of routes/auth.js: res.status(401).redirect('/login')
RequireAuthReject == Redirect("/login")

\* requireGuest of routes/auth.js: does the request pass
RequireGuest(rec) == rec.sess.user = NoUser

UsernameLengthErrorLax(username) ==
    IF IsLength(username, MinUsername, MaxUsername + 1) THEN {}
    ELSE {"Username must be between 3 and 50 characters"}

\* registerValidation, username: .trim().isLength({ min: 3, max: 50 })
UsernameLengthError(username) ==
    IF IsLength(Trim(username), MinUsername, MaxUsername) THEN {}
    ELSE {"Username must be between 3 and 50 characters"}

\* registerValidation of routes/auth.js: the messages of the failing validators
RegisterErrors(body) ==
    UsernameLengthError(body.username)
    \cup (IF MatchesWord(Trim(body.username)) THEN {}
          ELSE {"Username can only contain letters, numbers, and underscores"})
    \cup (IF IsEmail(Trim(body.email)) THEN {}
          ELSE {"Please provide a valid email address"})
    \cup (IF Len(body.password) >= MinPassword THEN {}
          ELSE {"Password must be at least 6 characters long"})
    \cup (IF MatchesPasswordPattern(body.password) THEN {}
          ELSE {"Password must contain at least one lowercase letter, one uppercase letter, and one number"})
    \cup (IF body.confirmPassword = body.password THEN {}
          ELSE {"Passwords do not match"})

\* registerValidation's sanitizers: .trim() and .normalizeEmail() rewrite req.body
RegisterSanitized(body) ==
    [body EXCEPT !.username = Trim(body.username),
                 !.email = IF IsEmail(Trim(body.email))
                           THEN NormalizeEmail(Trim(body.email)) ELSE Trim(body.email)]

\* loginValidation of routes/auth.js
LoginErrors(body) ==
    (IF Trim(body.username) # <<>> THEN {} ELSE {"Username is required"})
    \cup (IF body.password # <<>> THEN {} ELSE {"Password is required"})

LoginSanitized(body) == [body EXCEPT !.username = Trim(body.username)]

ExistingUsersByName(username, email) == {u \in users : u.username = username}

\* SELECT uid FROM users WHERE username = ? OR email = ?
ExistingUsers(username, email) ==
    {u \in users : u.username = username \/ u.email = email}

RegisterExistsError == {"Username or email already exists"}

\* POST /register: requireGuest, registerValidation, the handler to its first await
Register(r, s, body) ==
    /\ Arrives(r)
    /\ nextUid + InFlight("POST /register") <= MaxUsers
    /\ LET rec == New(s, "POST /register", body, 0)
           errors == RegisterErrors(body)
           ran == [rec EXCEPT !.handler = TRUE, !.errors = errors,
                              !.body = RegisterSanitized(body)]
       IN  IF ~RequireGuest(rec)
           THEN Finish(r, rec, Redirect("/dashboard"))
           ELSE IF errors # {}
           THEN Finish(r, ran, Render(200, "register", errors))
           ELSE Goto(r, ran, "reg_check")
    /\ UNCHANGED <<storeVars, setup, setupRuns, now, attempts, init>>

\* the existence check and the insert as one step
RegisterCheckAtomic(r) ==
    /\ At(r, "POST /register", "reg_check")
    /\ LET rec == reqs[r]
           username == Trim(rec.body.username)
           email == Trim(rec.body.email)
       IN  IF ExistingUsers(username, email) # {}
           THEN /\ Finish(r, rec, Render(200, "register", RegisterExistsError))
                /\ UNCHANGED <<users, nextUid>>
           ELSE /\ users' = users \cup {UserRow(nextUid, username, email, Hash(rec.body.password))}
                /\ nextUid' = nextUid + 1
                /\ Finish(r, [rec EXCEPT !.sess.user = SessionUser(nextUid, username, email)],
                          Redirect("/dashboard"))
    /\ UNCHANGED <<projects, nextPid, schema, setup, setupRuns, now, attempts, init>>

\* POST /register: the existence check, then on to bcrypt.hash
RegisterCheck(r) ==
    /\ At(r, "POST /register", "reg_check")
    /\ LET rec == reqs[r]
       IN  IF ExistingUsers(Trim(rec.body.username), Trim(rec.body.email)) # {}
           THEN Finish(r, rec, Render(200, "register", RegisterExistsError))
           ELSE Goto(r, rec, "reg_insert")
    /\ UNCHANGED <<storeVars, setup, setupRuns, now, attempts, init>>

\* POST /register: the insert, the automatic login and the redirect; a failing
\* insert is caught
RegisterInsert(r) ==
    /\ At(r, "POST /register", "reg_insert")
    /\ LET rec == reqs[r]
           username == Trim(rec.body.username)
           email == Trim(rec.body.email)
       IN  IF UsersUniqueOk(username, email)
           THEN /\ users' = users \cup {UserRow(nextUid, username, email, Hash(rec.body.password))}
                /\ nextUid' = nextUid + 1
                /\ Finish(r, [rec EXCEPT !.sess.user = SessionUser(nextUid, username, email),
                                         !.sess.successMessage =
                                             "Account created successfully! Welcome to Project Manager."],
                          Redirect("/dashboard"))
           ELSE /\ Finish(r, rec, Render(200, "register", {"Registration failed. Please try again."}))
                /\ UNCHANGED <<users, nextUid>>
    /\ UNCHANGED <<projects, nextPid, schema, setup, setupRuns, now, attempts, init>>

\* POST /login: requireGuest, loginValidation, the handler to its first await
Login(r, s, body) ==
    /\ Arrives(r)
    /\ LET rec == New(s, "POST /login", body, 0)
           errors == LoginErrors(body)
           ran == [rec EXCEPT !.handler = TRUE, !.errors = errors,
                              !.body = LoginSanitized(body)]
       IN  IF ~RequireGuest(rec)
           THEN Finish(r, rec, Redirect("/dashboard"))
           ELSE IF errors # {}
           THEN Finish(r, ran, Render(200, "login", {"Please provide valid username and password"}))
           ELSE Goto(r, ran, "login_find")
    /\ UNCHANGED <<storeVars, setup, setupRuns, now, attempts, init>>

LoginUnknownUserLeaky == Render(200, "login", {"Unknown username"})

\* POST /login: the response when no row has the username
LoginUnknownUser == Render(200, "login", {"Invalid username or password"})

\* POST /login: the response when the password does not match the row's hash
LoginWrongPassword == Render(200, "login", {"Invalid username or password"})

\* POST /login: SELECT * FROM users WHERE username = ?
LoginFind(r) ==
    /\ At(r, "POST /login", "login_find")
    /\ LET rec == reqs[r]
           found == {u \in users : u.username = Trim(rec.body.username)}
       IN  IF found = {}
           THEN Finish(r, rec, LoginUnknownUser)
           ELSE Goto(r, [rec EXCEPT !.found = CHOOSE u \in found : TRUE], "login_compare")
    /\ UNCHANGED <<storeVars, setup, setupRuns, now, attempts, init>>

\* POST /login: bcrypt.compare, the session and the redirect
LoginCompare(r) ==
    /\ At(r, "POST /login", "login_compare")
    /\ LET rec == reqs[r]
           user == rec.found
       IN  IF ~Compare(rec.body.password, user.password)
           THEN Finish(r, rec, LoginWrongPassword)
           ELSE Finish(r, [rec EXCEPT !.sess.user = SessionUser(user.uid, user.username, user.email),
                                      !.sess.returnTo = "",
                                      !.sess.successMessage = "Welcome back!"],
                       Redirect(IF rec.sess.returnTo # "" THEN rec.sess.returnTo ELSE "/dashboard"))
    /\ UNCHANGED <<storeVars, setup, setupRuns, now, attempts, init>>

\* session({ name: 'sessionId' }): the cookie that carries the session id
SessionCookieName == "sessionId"

\* res.clearCookie(name)
ClearCookie(resp, name) == [resp EXCEPT !.cleared = name]

\* POST /logout: requireAuth, then req.session.destroy(), res.clearCookie and
\* the response
Logout(r, s, xhr) ==
    /\ Arrives(r)
    /\ LET rec == New(s, "POST /logout", NoBody, 0)
       IN  IF ~RequireAuth(rec)
           THEN Finish(r, rec, RequireAuthReject)
           ELSE /\ reqs' = [reqs EXCEPT ![r] =
                              Done([rec EXCEPT !.handler = TRUE],
                                   ClearCookie(IF xhr THEN Json(200, {})
                                               ELSE Redirect("/?message=logged-out"),
                                               "connect.sid"))]
                /\ sessions' = [sessions EXCEPT ![s] = EmptySession]
    /\ UNCHANGED <<storeVars, setup, setupRuns, now, attempts, init>>

---------------------------------------------------------------------------
(* routes/project.js *)

MinTitle == 3
MaxTitle == 100
MinDescription == 10
MaxDescription == 500

EndDateNotAfterStartLax(end_date, start_date) ==
    /\ end_date # NoDate
    /\ start_date # NoDate
    /\ IsISO8601(end_date) /\ IsISO8601(start_date)
    /\ DateValue(end_date) < DateValue(start_date)

\* projectValidation, end_date's custom validator:
\* value && req.body.start_date && new Date(value) <= new Date(req.body.start_date);
\* a string new Date() cannot read gives NaN, and no comparison with NaN holds
EndDateNotAfterStart(end_date, start_date) ==
    /\ end_date # NoDate
    /\ start_date # NoDate
    /\ IsISO8601(end_date) /\ IsISO8601(start_date)
    /\ DateValue(end_date) <= DateValue(start_date)

ValidPhaseLax(phase) == phase \in Phases \cup {"unknown"}

\* projectValidation, phase: isIn([...])
ValidPhase(phase) == phase \in Phases

\* projectValidation of routes/project.js: the messages of the failing validators
ProjectErrors(body) ==
    (IF IsLength(Trim(body.title), MinTitle, MaxTitle) THEN {}
     ELSE {"Project title must be between 3 and 100 characters"})
    \cup (IF IsLength(Trim(body.short_description), MinDescription, MaxDescription) THEN {}
          ELSE {"Short description must be between 10 and 500 characters"})
    \cup (IF IsISO8601(body.start_date) THEN {}
          ELSE {"Please provide a valid start date"})
    \cup (IF body.end_date = NoDate \/ IsISO8601(body.end_date) THEN {}
          ELSE {"Please provide a valid end date"})
    \cup (IF EndDateNotAfterStart(body.end_date, body.start_date)
          THEN {"End date must be after start date"} ELSE {})
    \cup (IF ValidPhase(body.phase) THEN {}
          ELSE {"Please select a valid phase"})

ProjectSanitized(body) ==
    [body EXCEPT !.title = Trim(body.title),
                 !.short_description = Trim(body.short_description)]

\* GET /dashboard: requireAuth, the two queries and the render; the flash
\* messages are deleted from req.session after the response has ended
Dashboard(r, s, xhr) ==
    /\ Arrives(r)
    /\ LET rec == New(s, "GET /dashboard", NoBody, 0)
       IN  IF ~RequireAuth(rec)
           THEN Finish(r, rec, RequireAuthReject)
           ELSE Finish(r, [rec EXCEPT !.handler = TRUE],
                       Render(200, "dashboard",
                              {rec.sess.successMessage, rec.sess.errorMessage} \ {""}))
    /\ UNCHANGED <<storeVars, setup, setupRuns, now, attempts, init>>

\* GET /dashboard when res.render() sends the page on a later tick (the view
\* callback deferred, as Express 5 does): the two deletes run before the
\* response ends, and the session is stored without its flash messages
DashboardDeferred(r, s, xhr) ==
    /\ Arrives(r)
    /\ LET rec == New(s, "GET /dashboard", NoBody, 0)
       IN  IF ~RequireAuth(rec)
           THEN Finish(r, rec, RequireAuthReject)
           ELSE Finish(r, [rec EXCEPT !.handler = TRUE, !.sess.successMessage = "",
                                      !.sess.errorMessage = ""],
                       Render(200, "dashboard",
                              {rec.sess.successMessage, rec.sess.errorMessage} \ {""}))
    /\ UNCHANGED <<storeVars, setup, setupRuns, now, attempts, init>>

\* GET /add-project: requireAuth and the form
AddForm(r, s, xhr) ==
    /\ Arrives(r)
    /\ LET rec == New(s, "GET /add-project", NoBody, 0)
       IN  IF ~RequireAuth(rec)
           THEN Finish(r, rec, RequireAuthReject)
           ELSE Finish(r, [rec EXCEPT !.handler = TRUE], Render(200, "add-project", {}))
    /\ UNCHANGED <<storeVars, setup, setupRuns, now, attempts, init>>

\* POST /add-project: requireAuth, projectValidation, the handler to its await
AddProject(r, s, body, xhr) ==
    /\ Arrives(r)
    /\ nextPid + InFlight("POST /add-project") <= MaxProjects
    /\ LET rec == New(s, "POST /add-project", body, 0)
           errors == ProjectErrors(body)
           ran == [rec EXCEPT !.handler = TRUE, !.errors = errors,
                              !.body = ProjectSanitized(body)]
       IN  IF ~RequireAuth(rec)
           THEN Finish(r, rec, RequireAuthReject)
           ELSE IF errors # {}
           THEN Finish(r, ran, Render(200, "add-project", errors))
           ELSE Goto(r, ran, "add_insert")
    /\ UNCHANGED <<storeVars, setup, setupRuns, now, attempts, init>>

\* POST /add-project: the insert and the redirect; a failing insert is caught
AddProjectInsert(r) ==
    /\ At(r, "POST /add-project", "add_insert")
    /\ LET rec == reqs[r]
           b == rec.body
       IN  IF ProjectsInsertOk(b.phase, rec.sess.user.uid)
           THEN /\ projects' = projects \cup
                       {ProjectRow(nextPid, Trim(b.title), Trim(b.short_description),
                                   b.start_date, b.end_date, b.phase, rec.sess.user.uid)}
                /\ nextPid' = nextPid + 1
                /\ Finish(r, [rec EXCEPT !.sess.successMessage = "Project added successfully!"],
                          Redirect("/dashboard"))
           ELSE /\ Finish(r, rec, Render(200, "add-project",
                                         {"Failed to add project. Please try again."}))
                /\ UNCHANGED <<projects, nextPid>>
    /\ UNCHANGED <<users, nextUid, schema, setup, setupRuns, now, attempts, init>>

OwnedByAnyone(pid, uid) == {p \in projects : p.pid = pid}

\* ... WHERE pid = ? AND uid = ?
OwnedBy(pid, uid) == {p \in projects : p.pid = pid /\ p.uid = uid}

\* GET /edit-project/:id: requireAuth, then on to the query
EditForm(r, s, pid, xhr) ==
    /\ Arrives(r)
    /\ LET rec == New(s, "GET /edit-project", NoBody, pid)
       IN  IF ~RequireAuth(rec)
           THEN Finish(r, rec, RequireAuthReject)
           ELSE Goto(r, [rec EXCEPT !.handler = TRUE], "editform_query")
    /\ UNCHANGED <<storeVars, setup, setupRuns, now, attempts, init>>

\* GET /edit-project/:id: SELECT ... WHERE pid = ? AND uid = ?, then the form
EditFormQuery(r) ==
    /\ At(r, "GET /edit-project", "editform_query")
    /\ LET rec == reqs[r]
       IN  IF OwnedBy(rec.pid, rec.sess.user.uid) = {}
           THEN Finish(r, [rec EXCEPT !.sess.errorMessage =
                               "Project not found or you do not have permission to edit it."],
                       Redirect("/dashboard"))
           ELSE Finish(r, rec, Render(200, "edit-project", {}))
    /\ UNCHANGED <<storeVars, setup, setupRuns, now, attempts, init>>

\* POST /edit-project/:id: requireAuth, projectValidation, the handler to its await
EditProject(r, s, pid, body, xhr) ==
    /\ Arrives(r)
    /\ LET rec == New(s, "POST /edit-project", body, pid)
       IN  IF ~RequireAuth(rec)
           THEN Finish(r, rec, RequireAuthReject)
           ELSE Goto(r, [rec EXCEPT !.handler = TRUE, !.errors = ProjectErrors(body),
                                    !.body = ProjectSanitized(body)],
                     "edit_check")
    /\ UNCHANGED <<storeVars, setup, setupRuns, now, attempts, init>>

\* POST /edit-project/:id: the ownership query, then the validation result
EditProjectCheck(r) ==
    /\ At(r, "POST /edit-project", "edit_check")
    /\ LET rec == reqs[r]
       IN  IF OwnedBy(rec.pid, rec.sess.user.uid) = {}
           THEN Finish(r, [rec EXCEPT !.sess.errorMessage =
                               "Project not found or you do not have permission to edit it."],
                       Redirect("/dashboard"))
           ELSE IF rec.errors # {}
           THEN Finish(r, rec, Render(200, "edit-project", rec.errors))
           ELSE Goto(r, rec, "edit_update")
    /\ UNCHANGED <<storeVars, setup, setupRuns, now, attempts, init>>

\* POST /edit-project/:id: UPDATE projects SET ... WHERE pid = ? AND uid = ?
EditProjectUpdate(r) ==
    /\ At(r, "POST /edit-project", "edit_update")
    /\ LET rec == reqs[r]
           b == rec.body
           hit == OwnedBy(rec.pid, rec.sess.user.uid)
       IN  /\ projects' = (projects \ hit) \cup
                  {[p EXCEPT !.title = Trim(b.title),
                             !.short_description = Trim(b.short_description),
                             !.start_date = b.start_date, !.end_date = b.end_date,
                             !.phase = b.phase] : p \in hit}
           /\ Finish(r, [rec EXCEPT !.sess.successMessage = "Project updated successfully!"],
                     Redirect("/dashboard"))
    /\ UNCHANGED <<users, nextUid, nextPid, schema, setup, setupRuns, now, attempts, init>>

\* POST /delete-project/:id: requireAuth, then on to the statement
DeleteProject(r, s, pid, xhr) ==
    /\ Arrives(r)
    /\ LET rec == New(s, "POST /delete-project", NoBody, pid)
       IN  IF ~RequireAuth(rec)
           THEN Finish(r, rec, RequireAuthReject)
           ELSE Goto(r, [rec EXCEPT !.handler = TRUE], "delete_exec")
    /\ UNCHANGED <<storeVars, setup, setupRuns, now, attempts, init>>

\* POST /delete-project/:id: DELETE FROM projects WHERE pid = ? AND uid = ?
DeleteProjectExec(r) ==
    /\ At(r, "POST /delete-project", "delete_exec")
    /\ LET rec == reqs[r]
           hit == OwnedBy(rec.pid, rec.sess.user.uid)
       IN  /\ projects' = projects \ hit
           /\ IF hit = {}
              THEN Finish(r, [rec EXCEPT !.sess.errorMessage =
                                  "Project not found or you do not have permission to delete it."],
                          Redirect("/dashboard"))
              ELSE Finish(r, [rec EXCEPT !.sess.successMessage = "Project deleted successfully!"],
                          Redirect("/dashboard"))
    /\ UNCHANGED <<users, nextUid, nextPid, schema, setup, setupRuns, now, attempts, init>>

---------------------------------------------------------------------------
(* middleware/auth.js *)

TickMs == 12 * 60 * 60 * 1000

SessionTimeoutWeek == 7 * 24 * 60 * 60 * 1000

\* checkSessionTimeout: const sessionTimeout = 24 * 60 * 60 * 1000
SessionTimeout == 24 * 60 * 60 * 1000

\* checkSessionTimeout: req.session.user && req.session.lastActivity &&
\* now - req.session.lastActivity > sessionTimeout
SessionExpired(sess, t) ==
    /\ sess.user # NoUser
    /\ sess.lastActivity # 0
    /\ t - sess.lastActivity > SessionTimeout

\* checkSessionTimeout: the response to an expired session
SessionExpiredReject(xhr) ==
    IF xhr THEN Json(401, {"Session expired"})
    ELSE Redirect("/login?message=session-expired")

\* requireAuth of middleware/auth.js: the response to an anonymous request
RequireAuthMwReject(xhr) ==
    IF xhr THEN Json(401, {"Authentication required"}) ELSE Redirect("/login")

\* a route mounted behind checkSessionTimeout and requireAuth of
\* middleware/auth.js: the two guards, then the handler to its first await
Guarded(r, s, xhr) ==
    /\ Arrives(r)
    /\ LET rec == New(s, "GET /guarded", NoBody, 0)
           seen == [rec EXCEPT !.sess.lastActivity =
                                   IF rec.sess.user # NoUser THEN now ELSE rec.sess.lastActivity]
       IN  IF SessionExpired(rec.sess, now)
           THEN /\ reqs' = [reqs EXCEPT ![r] = Done(rec, SessionExpiredReject(xhr))]
                /\ sessions' = [sessions EXCEPT ![s] = EmptySession]
           ELSE IF seen.sess.user = NoUser
           THEN Finish(r, [seen EXCEPT !.sess.returnTo = "/guarded"], RequireAuthMwReject(xhr))
           ELSE Goto(r, [seen EXCEPT !.handler = TRUE], "guarded_handler")
    /\ UNCHANGED <<storeVars, setup, setupRuns, now, attempts, init>>

\* the guarded route's handler answers
GuardedHandler(r) ==
    /\ At(r, "GET /guarded", "guarded_handler")
    /\ Finish(r, reqs[r], Render(200, "guarded", {}))
    /\ UNCHANGED <<storeVars, setup, setupRuns, now, attempts, init>>

\* validateCSRFToken: sessionToken && requestToken && sessionToken === requestToken
ValidCSRFToken(sessionToken, requestToken) ==
    sessionToken # "" /\ requestToken # "" /\ sessionToken = requestToken

OwnerMismatchNever(uid, userId) == FALSE

\* requireProjectOwnership: projects[0].uid !== userId
OwnerMismatch(uid, userId) == uid # userId

\* requireProjectOwnership: SELECT uid FROM projects WHERE pid = ?
ProjectOwners(pid) == {p.uid : p \in {q \in projects : q.pid = pid}}

\* requireProjectOwnership: what the guard answers, as JSON with the status
\* when the client asks for JSON, and otherwise as a redirect to the dashboard
\* with the message left in the session
OwnershipReject(r, rec, status, error, errorMessage) ==
    IF rec.xhr
    THEN Finish(r, rec, Json(status, {error}))
    ELSE Finish(r, [rec EXCEPT !.sess.errorMessage = errorMessage], Redirect("/dashboard"))

\* a route mounted behind requireProjectOwnership: the guard to its await.
\* Reading req.session.user.uid of a session with no user throws, and the
\* guard's catch answers
OwnershipGuarded(r, s, pid, xhr) ==
    /\ Arrives(r)
    /\ LET rec == [New(s, "POST /owned", NoBody, pid) EXCEPT !.xhr = xhr]
       IN  IF rec.sess.user = NoUser
           THEN OwnershipReject(r, rec, 500, "Server error",
                                "Unable to verify project ownership.")
           ELSE Goto(r, rec, "owned_query")
    /\ UNCHANGED <<storeVars, setup, setupRuns, now, attempts, init>>

\* requireProjectOwnership after the SELECT: not found, not the owner, or next()
OwnershipQuery(r) ==
    /\ At(r, "POST /owned", "owned_query")
    /\ LET rec == reqs[r]
           owners == ProjectOwners(rec.pid)
       IN  IF owners = {}
           THEN OwnershipReject(r, rec, 404, "Project not found", "Project not found.")
           ELSE IF \E uid \in owners : OwnerMismatch(uid, rec.sess.user.uid)
           THEN OwnershipReject(r, rec, 403, "Access denied",
                                "You do not have permission to access this project.")
           ELSE Goto(r, [rec EXCEPT !.handler = TRUE], "owned_handler")
    /\ UNCHANGED <<storeVars, setup, setupRuns, now, attempts, init>>

\* the handler behind the ownership guard answers
OwnedHandler(r) ==
    /\ At(r, "POST /owned", "owned_handler")
    /\ Finish(r, reqs[r], Render(200, "owned", {}))
    /\ UNCHANGED <<storeVars, setup, setupRuns, now, attempts, init>>

\* authRateLimit: an address that has no entry in the Map
NoAttempts == [count |-> 0, firstAttempt |-> 0, obj |-> 0]

\* authRateLimit: const attempts = new Map()
NoEntries == [a \in Sid |-> NoAttempts]

\* authRateLimit: maxAttempts = 5
MaxAttempts == 5

\* authRateLimit: windowMs = 15 * 60 * 1000
WindowMs == 15 * 60 * 1000

StaleNever(entry, t) == FALSE

\* authRateLimit: now - data.firstAttempt > windowMs
Stale(entry, t) == entry # NoAttempts /\ t - entry.firstAttempt > WindowMs

\* authRateLimit: clean up old attempts
Cleaned(table, t) == [a \in Sid |-> IF Stale(table[a], t) THEN NoAttempts ELSE table[a]]

BlockedAbove(userAttempts) == userAttempts # NoAttempts /\ userAttempts.count > MaxAttempts

\* authRateLimit: userAttempts && userAttempts.count >= maxAttempts
Blocked(userAttempts) == userAttempts # NoAttempts /\ userAttempts.count >= MaxAttempts

\* authRateLimit: Math.ceil((windowMs - (now - userAttempts.firstAttempt)) / 1000 / 60)
TimeLeft(userAttempts, t) ==
    LET ms == WindowMs - (t - userAttempts.firstAttempt)
    IN  IF ms % 60000 = 0 THEN ms \div 60000 ELSE ms \div 60000 + 1

\* authRateLimit: the answer to a blocked address
TooManyAttempts(xhr, timeLeft) ==
    IF xhr
    THEN [Json(429, {"Too many login attempts"}) EXCEPT !.timeLeft = timeLeft]
    ELSE [Render(200, "login", {"Too many login attempts. Please try again in N minutes."})
              EXCEPT !.timeLeft = timeLeft]

\* a { count, firstAttempt } object that is neither in the Map nor held by a
\* request in flight
FreshObj ==
    CHOOSE k \in 1..(MaxReq + MaxSessions + 1) :
        /\ \A a \in Sid : attempts[a].obj # k
        /\ \A q \in Req : reqs[q].userAttempts # k

\* a login route mounted behind authRateLimit(): the limiter, run on a request
\* of client s, whose address is s.  It evicts, answers a blocked address, and
\* otherwise hands the request on with the entry it found
LimitedLogin(r, s, xhr) ==
    /\ Arrives(r)
    /\ LET rec == New(s, "POST /limited-login", NoBody, 0)
           table == Cleaned(attempts, now)
           userAttempts == table[s]
       IN  /\ attempts' = table
           /\ IF Blocked(userAttempts)
              THEN Finish(r, rec, TooManyAttempts(xhr, TimeLeft(userAttempts, now)))
              ELSE Goto(r, [rec EXCEPT !.handler = TRUE, !.userAttempts = userAttempts.obj],
                        "limited_handler")
    /\ UNCHANGED <<storeVars, setup, setupRuns, now, init>>

\* the handler behind the limiter finds the login failed and calls
\* req.recordFailedAttempt(): a first entry for the address, dated by the
\* request's arrival, or one more on the entry the request found, which counts
\* only while that entry is still the one in the Map
RecordFailedAttempt(r) ==
    /\ At(r, "POST /limited-login", "limited_handler")
    /\ LET rec == reqs[r]
           ip == rec.sid
       IN  /\ attempts' =
                  IF rec.userAttempts = 0
                  THEN [attempts EXCEPT ![ip] = [count |-> 1, firstAttempt |-> rec.at,
                                                 obj |-> FreshObj]]
                  ELSE IF attempts[ip].obj = rec.userAttempts
                  THEN [attempts EXCEPT ![ip].count = @ + 1]
                  ELSE attempts
           /\ Finish(r, [rec EXCEPT !.userAttempts = 0],
                     Render(200, "login", {"Invalid username or password"}))
    /\ UNCHANGED <<storeVars, setup, setupRuns, now, init>>

\* the handler behind the limiter finds the login good and calls
\* req.clearFailedAttempts()
ClearFailedAttempts(r) ==
    /\ At(r, "POST /limited-login", "limited_handler")
    /\ LET rec == reqs[r]
       IN  /\ attempts' = [attempts EXCEPT ![rec.sid] = NoAttempts]
           /\ Finish(r, [rec EXCEPT !.userAttempts = 0], Redirect("/dashboard"))
    /\ UNCHANGED <<storeVars, setup, setupRuns, now, init>>

\* half a window passes
TickHalfWindow ==
    /\ now < TickMs + MaxTicks * (WindowMs \div 2)
    /\ now' = now + WindowMs \div 2
    /\ UNCHANGED <<storeVars, sessions, reqs, setup, setupRuns, attempts, init>>

\* time passes
Tick ==
    /\ now < (MaxTicks + 1) * TickMs
    /\ now' = now + TickMs
    /\ UNCHANGED <<storeVars, sessions, reqs, setup, setupRuns, attempts, init>>

---------------------------------------------------------------------------
(* middleware/security.js and middleware/validation.js *)

\* the fields of req.body that hold text
TextFields == {"username", "email", "password", "confirmPassword", "title", "short_description"}

\* xss(): the markup characters are escaped
RECURSIVE Xss(_)
Xss(s) ==
    IF s = <<>> THEN <<>>
    ELSE (CASE Head(s) = "<" -> <<"&", "l", "t", ";">>
            [] Head(s) = ">" -> <<"&", "g", "t", ";">>
            [] OTHER -> <<Head(s)>>) \o Xss(Tail(s))

\* .replace(/[<>]/g, '')
RECURSIVE StripAngles(_)
StripAngles(s) ==
    IF s = <<>> THEN <<>>
    ELSE (IF Head(s) \in {"<", ">"} THEN <<>> ELSE <<Head(s)>>) \o StripAngles(Tail(s))

\* sanitizeInput of validation.js: value.trim().replace(/[<>]/g, '')
SanitizeInput(value) == StripAngles(Trim(value))

\* sanitizeRequest: every string of req.body but password and confirmPassword
SanitizeRequest(body) ==
    [f \in DOMAIN body |->
        IF f \in TextFields \ {"password", "confirmPassword"}
        THEN SanitizeInput(body[f]) ELSE body[f]]

SanitizeObjectSkipped(body) == body

\* validateAndSanitize: sanitizeObject(req.body), xss(obj[key].trim()) on every string
SanitizeObject(body) ==
    [f \in DOMAIN body |-> IF f \in TextFields THEN Xss(Trim(body[f])) ELSE body[f]]

\* validator.isNumeric
IsNumeric(s) == s # <<>> /\ \A i \in 1..Len(s) : s[i] \in DigitChars

\* a field without rules
NoRules ==
    [required |-> FALSE, minLength |-> 0, maxLength |-> 0, isEmail |-> FALSE,
     isNumeric |-> FALSE, pattern |-> ""]

\* validateAndSanitize: the text of each error, for the fields and bounds of
\* SampleRules
RuleMessages ==
    [username |->
        [required |-> "username is required",
         minLength |-> "username must be at least 3 characters",
         maxLength |-> "username must be no more than 50 characters",
         isEmail |-> "username must be a valid email",
         isNumeric |-> "username must be a number",
         pattern |-> "username format is invalid"],
     email |->
        [required |-> "email is required",
         minLength |-> "email must be at least 0 characters",
         maxLength |-> "email must be no more than 0 characters",
         isEmail |-> "email must be a valid email",
         isNumeric |-> "email must be a number",
         pattern |-> "email format is invalid"],
     password |->
        [required |-> "password is required",
         minLength |-> "password must be at least 6 characters",
         maxLength |-> "password must be no more than 0 characters",
         isEmail |-> "password must be a valid email",
         isNumeric |-> "password must be a number",
         pattern |-> "password format is invalid"],
     title |->
        [required |-> "title is required",
         minLength |-> "title must be at least 3 characters",
         maxLength |-> "title must be no more than 0 characters",
         isEmail |-> "title must be a valid email",
         isNumeric |-> "title must be a number",
         pattern |-> "title format is invalid"]]

\* validateAndSanitize: the rules of one field applied to its value
FieldErrors(field, rules, value) ==
    IF rules.required /\ (value = <<>> \/ Trim(value) = <<>>)
    THEN {RuleMessages[field].required}
    ELSE IF value = <<>> THEN {}
    ELSE (IF rules.minLength # 0 /\ Len(value) < rules.minLength
          THEN {RuleMessages[field].minLength} ELSE {})
         \cup (IF rules.maxLength # 0 /\ Len(value) > rules.maxLength
               THEN {RuleMessages[field].maxLength} ELSE {})
         \cup (IF rules.isEmail /\ ~IsEmail(value)
               THEN {RuleMessages[field].isEmail} ELSE {})
         \cup (IF rules.isNumeric /\ ~IsNumeric(value)
               THEN {RuleMessages[field].isNumeric} ELSE {})
         \cup (IF rules.pattern = "word" /\ ~MatchesWord(value)
               THEN {RuleMessages[field].pattern} ELSE {})

\* the errors of the first field, in the order of the rules, that has any
RuleErrorsFailFast(validationRules, order, body) ==
    LET failing == {i \in 1..Len(order) :
                        FieldErrors(order[i], validationRules[order[i]], body[order[i]]) # {}}
    IN  IF failing = {} THEN {}
        ELSE LET first == CHOOSE i \in failing : \A j \in failing : i <= j
             IN  FieldErrors(order[first], validationRules[order[first]], body[order[first]])

\* validateAndSanitize: for (let field in validationRules) ... errors.push(...)
RuleErrors(validationRules, order, body) ==
    UNION {FieldErrors(order[i], validationRules[order[i]], body[order[i]]) : i \in 1..Len(order)}

\* the rules a route hands to validateAndSanitize: three required fields and
\* an optional one
SampleRuleOrder == <<"username", "email", "password", "title">>

SampleRules ==
    [username |-> [NoRules EXCEPT !.required = TRUE, !.minLength = MinUsername,
                                  !.maxLength = MaxUsername, !.pattern = "word"],
     email |-> [NoRules EXCEPT !.required = TRUE, !.isEmail = TRUE],
     password |-> [NoRules EXCEPT !.required = TRUE, !.minLength = MinPassword],
     title |-> [NoRules EXCEPT !.minLength = MinTitle]]

\* a route mounted behind validateAndSanitize(SampleRules): the body is
\* sanitized, then the rules read it; any error is answered with the 400 page
\* that lists them all, and otherwise the handler is next
Validated(r, s, body) ==
    /\ Arrives(r)
    /\ LET clean == SanitizeObject(body)
           errors == RuleErrors(SampleRules, SampleRuleOrder, clean)
           rec == [New(s, "POST /validated", clean, 0) EXCEPT !.errors = errors]
       IN  IF errors # {}
           THEN Finish(r, rec, Render(400, "error", errors))
           ELSE Goto(r, [rec EXCEPT !.handler = TRUE], "validated_handler")
    /\ UNCHANGED <<storeVars, setup, setupRuns, now, attempts, init>>

\* a route mounted behind sanitizeRequest: the body is sanitized and the
\* handler is next
Sanitized(r, s, body) ==
    /\ Arrives(r)
    /\ Goto(r, [New(s, "POST /sanitized", SanitizeRequest(body), 0) EXCEPT !.handler = TRUE],
            "validated_handler")
    /\ UNCHANGED <<storeVars, setup, setupRuns, now, attempts, init>>

\* the handler behind validateAndSanitize or sanitizeRequest answers
ValidatedHandler(r) ==
    /\ reqs[r].route \in {"POST /validated", "POST /sanitized"}
    /\ reqs[r].pc = "validated_handler"
    /\ Finish(r, reqs[r], Render(200, "validated", {}))
    /\ UNCHANGED <<storeVars, setup, setupRuns, now, attempts, init>>

---------------------------------------------------------------------------
(* middleware/validation.js: customValidations *)

\* maxProjectsPerUser: const maxProjects = 50
MaxProjectsPerUser == 50

\* maxProjectsPerUser: the answer to a user who has reached the limit
MaxProjectsReject(r, rec, xhr) ==
    IF xhr
    THEN Finish(r, rec, Json(400, {"Maximum number of projects (50) reached"}))
    ELSE Finish(r, [rec EXCEPT !.sess.errorMessage =
                                   "You have reached the maximum number of projects (50)."],
                Redirect("/dashboard"))

\* POST /add-project behind requireAuth and maxProjectsPerUser: to the await of
\* the count query
CappedAddProject(r, s, body, xhr) ==
    /\ Arrives(r)
    /\ nextPid + InFlight("POST /add-project") <= MaxProjectsPerUser + MaxReq
    /\ LET rec == [New(s, "POST /add-project", body, 0) EXCEPT !.xhr = xhr]
       IN  IF ~RequireAuth(rec)
           THEN Finish(r, rec, RequireAuthReject)
           ELSE Goto(r, rec, "cap_count")
    /\ UNCHANGED <<storeVars, setup, setupRuns, now, attempts, init>>

\* maxProjectsPerUser: SELECT COUNT(*) FROM projects WHERE uid = ? and the
\* comparison; a failing query is logged and the request goes on.  Then
\* projectValidation and the handler to its await
CappedCount(r, answered) ==
    /\ At(r, "POST /add-project", "cap_count")
    /\ LET rec == reqs[r]
           count == Cardinality({p \in projects : p.uid = rec.sess.user.uid})
           errors == ProjectErrors(rec.body)
           ran == [rec EXCEPT !.handler = TRUE, !.errors = errors,
                              !.body = ProjectSanitized(rec.body)]
       IN  IF answered /\ count >= MaxProjectsPerUser
           THEN MaxProjectsReject(r, rec, rec.xhr)
           ELSE IF errors # {}
           THEN Finish(r, ran, Render(200, "add-project", errors))
           ELSE Goto(r, ran, "add_insert")
    /\ UNCHANGED <<storeVars, setup, setupRuns, now, attempts, init>>

---------------------------------------------------------------------------
(* Failing statements: the catch blocks of the handlers, app.js error handler *)

\* the routes whose handler awaits a statement, and where a request waits
Awaiting ==
    {"reg_check", "reg_insert", "login_find", "login_compare", "add_insert",
     "editform_query", "edit_check", "edit_update", "delete_exec"}

CatchMessageDetailed(route) == "ER_CON_COUNT_ERROR: Too many connections"

\* the message each handler's catch block gives the client
CatchMessage(route) ==
    CASE route = "POST /register" -> "Registration failed. Please try again."
      [] route = "POST /login" -> "Login failed. Please try again."
      [] route = "POST /add-project" -> "Failed to add project. Please try again."
      [] route = "POST /edit-project" -> "Failed to update project. Please try again."
      [] route = "POST /delete-project" -> "Failed to delete project. Please try again."
      [] route = "GET /edit-project" -> "Unable to load project for editing."
      [] route = "GET /dashboard" -> "Unable to load dashboard"

\* the view a form handler's catch block renders again
CatchView(route) ==
    CASE route = "POST /register" -> "register"
      [] route = "POST /login" -> "login"
      [] route = "POST /add-project" -> "add-project"
      [] route = "POST /edit-project" -> "edit-project"

\* the statement a request awaits fails (the store is down, the pool is
\* exhausted): no row changes and the handler's catch block answers, with the
\* form again for the form routes and with a redirect to the dashboard and a
\* message in the session for delete and the edit form
StatementFails(r) ==
    /\ ~Free(r)
    /\ reqs[r].pc \in Awaiting
    /\ LET rec == reqs[r]
       IN  IF rec.route \in {"POST /delete-project", "GET /edit-project"}
           THEN Finish(r, [rec EXCEPT !.sess.errorMessage = CatchMessage(rec.route)],
                       Redirect("/dashboard"))
           ELSE Finish(r, rec, Render(200, CatchView(rec.route), {CatchMessage(rec.route)}))
    /\ UNCHANGED <<storeVars, setup, setupRuns, now, attempts, init>>

\* GET /dashboard whose query fails: the catch block answers 500
DashboardFails(r, s) ==
    /\ Arrives(r)
    /\ LET rec == New(s, "GET /dashboard", NoBody, 0)
       IN  IF ~RequireAuth(rec)
           THEN Finish(r, rec, RequireAuthReject)
           ELSE Finish(r, [rec EXCEPT !.handler = TRUE],
                       Render(500, "error", {CatchMessage(rec.route)}))
    /\ UNCHANGED <<storeVars, setup, setupRuns, now, attempts, init>>

\* a request whose JSON body does not parse: express.json() passes the error
\* to the error handler of app.js, which answers 500 and hands the error to
\* the page only when NODE_ENV is 'development'
MalformedJson(r, s, development) ==
    /\ Arrives(r)
    /\ Finish(r, New(s, "POST /add-project", NoBody, 0),
              Render(500, "error",
                     {"Something went wrong. Please try again later."}
                     \cup (IF development THEN {"SyntaxError: Unexpected token"} ELSE {})))
    /\ UNCHANGED <<storeVars, setup, setupRuns, now, attempts, init>>

---------------------------------------------------------------------------
(* Request inputs *)

Bob == <<"b", "o", "b">>
BobPadded == <<" ", "b", "o", "b", " ">>
Ab == <<"a", "b">>
AbPadded == <<" ", "a", "b", " ", " ">>
Long50 == Rep("c", 50)
Long51 == Rep("c", 51)
Zed == <<"z", "e", "d">>

MailA == <<"a", "@", "x", ".", "c", "o">>
MailAUpper == <<"A", "@", "X", ".", "c", "o">>
MailB == <<"b", "@", "x", ".", "c", "o">>

GoodPw == <<"A", "b", "c", "1", "2", "3">>
OtherPw == <<"X", "y", "z", "7", "8", "9">>
WeakPw == <<"a", "b", "c", "d", "e", "f">>

RegBody(username, email, password, confirmPassword) ==
    [NoBody EXCEPT !.username = username, !.email = email, !.password = password,
                   !.confirmPassword = confirmPassword]

RegisterInputs ==
    { RegBody(Bob, MailA, GoodPw, GoodPw),
      RegBody(BobPadded, MailAUpper, GoodPw, GoodPw),
      RegBody(Long50, MailB, OtherPw, OtherPw),
      RegBody(Bob, MailB, GoodPw, GoodPw),
      RegBody(Ab, MailB, GoodPw, GoodPw),
      RegBody(AbPadded, MailB, GoodPw, GoodPw),
      RegBody(Long51, MailB, GoodPw, GoodPw),
      RegBody(TestUserName, MailB, GoodPw, GoodPw),
      RegBody(Zed, TestUserEmail, GoodPw, GoodPw),
      RegBody(TestUserName, MailB, WeakPw, WeakPw),
      RegBody(Ab, MailA, GoodPw, OtherPw) }

LoginBody(username, password) ==
    [NoBody EXCEPT !.username = username, !.password = password]

LoginInputs ==
    { LoginBody(Bob, GoodPw),
      LoginBody(BobPadded, GoodPw),
      LoginBody(Bob, OtherPw),
      LoginBody(Zed, GoodPw),
      LoginBody(TestUserName, TestUserPassword),
      LoginBody(TestUserName, GoodPw),
      LoginBody(<<" ">>, GoodPw),
      LoginBody(Bob, <<>>) }

Web == <<"W", "e", "b">>
WebAppPadded == <<" ", "W", "e", "b", " ", "A", "p", "p", " ">>
Description == <<"A", " ", "s", "m", "a", "l", "l", " ", "s", "i", "t", "e">>
Jan15 == <<2024, 1, 15>>
Feb01 == <<2024, 2, 1>>
Month13 == <<2024, 13, 1>>

ProjBody(title, short_description, start_date, end_date, phase) ==
    [NoBody EXCEPT !.title = title, !.short_description = short_description,
                   !.start_date = start_date, !.end_date = end_date, !.phase = phase]

AddProjectInputs ==
    { ProjBody(Web, Description, Jan15, NoDate, "design"),
      ProjBody(WebAppPadded, Description, Jan15, Feb01, "testing"),
      ProjBody(Web, Description, Jan15, Jan15, "design"),
      ProjBody(Web, Description, Feb01, Jan15, "design"),
      ProjBody(Web, Description, Jan15, Month13, "design"),
      ProjBody(Web, Description, Month13, Feb01, "design"),
      ProjBody(Web, Description, Jan15, NoDate, "unknown"),
      ProjBody(Web, Description, Jan15, Feb01, ""),
      ProjBody(Ab, Description, Jan15, Feb01, "complete") }

EditProjectInputs ==
    { ProjBody(WebAppPadded, Description, Jan15, Feb01, "testing"),
      ProjBody(Web, Description, Jan15, Jan15, "design"),
      ProjBody(Web, Description, Jan15, NoDate, "unknown") }

\* the ids a request names: a seeded project, the first project a user adds,
\* and an id no project has yet
PidInputs == {1, Len(SampleProjects) + 1, nextPid}

MarkupName == <<"b", "<", "b", ">">>
AngleSpaceTitle == <<"<", " ", "a", "b", "c">>
BadMail == <<"a", "x", ".", "c", "o">>
PaddedPw == <<" ", "A", "b", "c", "1", "2", "3", " ">>
Pw5 == <<"A", "b", "c", "1", "2">>

ValidateBody(username, email, password, title) ==
    [NoBody EXCEPT !.username = username, !.email = email, !.password = password,
                   !.confirmPassword = password, !.title = title]

\* forms with padded, short, empty and marked-up fields, one or several of
\* them wrong at once
ValidateInputs ==
    { ValidateBody(u, e, p, t) :
          u \in {BobPadded, AbPadded, MarkupName, <<>>},
          e \in {MailA, BadMail},
          p \in {GoodPw, PaddedPw, Pw5},
          t \in {<<>>, Ab, AngleSpaceTitle} }

---------------------------------------------------------------------------
(* Specifications *)

\* the store after setupDatabase() has run once on a fresh server
InitApp ==
    /\ users = {UserRow(1, TestUserName, TestUserEmail, Hash(TestUserPassword))}
    /\ projects = {ProjectRow(i, SampleProjects[i].title, SampleProjects[i].short_description,
                              SampleProjects[i].start_date, NoDate, SampleProjects[i].phase, 1)
                   : i \in 1..Len(SampleProjects)}
    /\ nextUid = 2
    /\ nextPid = Len(SampleProjects) + 1
    /\ schema = SchemaAll
    /\ sessions = [s \in Sid |-> EmptySession]
    /\ reqs = [r \in Req |-> IdleReq]
    /\ setup = [pc |-> "done", insertId |-> 1, i |-> Len(SampleProjects)]
    /\ setupRuns = 1
    /\ now = TickMs
    /\ attempts = NoEntries
    /\ init = InitIdle

TestUserLogin == LoginBody(TestUserName, TestUserPassword)
BobRegistration == RegBody(Bob, MailA, GoodPw, GoodPw)

\* registration from two clients, one of which also logs in as the seeded user
NextRegister ==
    \E r \in Req :
        \/ \E s \in Sid : \E b \in RegisterInputs : Register(r, s, b)
        \/ Login(r, 1, TestUserLogin)
        \/ RegisterCheck(r)
        \/ RegisterInsert(r)
        \/ LoginFind(r)
        \/ LoginCompare(r)

SpecRegister == InitApp /\ [][NextRegister]_vars

\* login and logout from two clients, one of which also registers a user
NextLogin ==
    \E r \in Req :
        \/ Register(r, 2, BobRegistration)
        \/ \E s \in Sid : \E b \in LoginInputs : Login(r, s, b)
        \/ \E s \in Sid : Logout(r, s, FALSE)
        \/ RegisterCheck(r)
        \/ RegisterInsert(r)
        \/ LoginFind(r)
        \/ LoginCompare(r)

SpecLogin == InitApp /\ [][NextLogin]_vars

\* the project routes with every input, one request at a time, from one client
\* that logs in as the seeded user
NextProject ==
    \E r \in {1} :
        \/ Login(r, 1, TestUserLogin)
        \/ \E b \in AddProjectInputs : AddProject(r, 1, b, FALSE)
        \/ \E b \in EditProjectInputs : \E pid \in PidInputs : EditProject(r, 1, pid, b, FALSE)
        \/ \E pid \in PidInputs : DeleteProject(r, 1, pid, FALSE)
        \/ LoginFind(r)
        \/ LoginCompare(r)
        \/ AddProjectInsert(r)
        \/ EditProjectCheck(r)
        \/ EditProjectUpdate(r)
        \/ DeleteProjectExec(r)

SpecProject == InitApp /\ [][NextProject]_vars

OwnerEdit == ProjBody(WebAppPadded, Description, Jan15, Feb01, "testing")

\* two users and one project: client 1 logs in as the seeded user, who owns
\* project 1, client 2 registers, and both edit and delete project 1
NextOwner ==
    \E r \in Req :
        \/ Login(r, 1, TestUserLogin)
        \/ Register(r, 2, BobRegistration)
        \/ \E s \in Sid : EditProject(r, s, 1, OwnerEdit, FALSE)
        \/ \E s \in Sid : DeleteProject(r, s, 1, FALSE)
        \/ LoginFind(r)
        \/ LoginCompare(r)
        \/ RegisterCheck(r)
        \/ RegisterInsert(r)
        \/ EditProjectCheck(r)
        \/ EditProjectUpdate(r)
        \/ DeleteProjectExec(r)

SpecOwner == InitApp /\ [][NextOwner]_vars

GuardBody == ProjBody(WebAppPadded, Description, Jan15, Feb01, "testing")

\* every protected route, browser and XHR, one request at a time: client 1 logs
\* in and out, client 2 stays anonymous
NextGuard ==
    \E r \in {1} :
        \/ Login(r, 1, TestUserLogin)
        \/ \E s \in Sid : \E xhr \in BOOLEAN : Logout(r, s, xhr)
        \/ \E s \in Sid : \E xhr \in BOOLEAN : Dashboard(r, s, xhr)
        \/ \E s \in Sid : \E xhr \in BOOLEAN : AddForm(r, s, xhr)
        \/ \E s \in Sid : \E xhr \in BOOLEAN : AddProject(r, s, GuardBody, xhr)
        \/ \E s \in Sid : \E xhr \in BOOLEAN : EditForm(r, s, 1, xhr)
        \/ \E s \in Sid : \E xhr \in BOOLEAN : EditProject(r, s, 1, GuardBody, xhr)
        \/ \E s \in Sid : \E xhr \in BOOLEAN : DeleteProject(r, s, 1, xhr)
        \/ LoginFind(r)
        \/ LoginCompare(r)
        \/ AddProjectInsert(r)
        \/ EditFormQuery(r)
        \/ EditProjectCheck(r)
        \/ EditProjectUpdate(r)
        \/ DeleteProjectExec(r)

SpecGuard == InitApp /\ [][NextGuard]_vars

\* a server on which nothing has been set up
InitFresh ==
    /\ users = {}
    /\ projects = {}
    /\ nextUid = 1
    /\ nextPid = 1
    /\ schema = SchemaNone
    /\ sessions = [s \in Sid |-> EmptySession]
    /\ reqs = [r \in Req |-> IdleReq]
    /\ setup = SetupIdle
    /\ setupRuns = 0
    /\ now = TickMs
    /\ attempts = NoEntries
    /\ init = InitIdle

\* setupDatabase() run and run again, while one client registers and adds
\* projects
NextSetup ==
    \/ SetupStep
    \/ \E r \in Req :
        \/ Register(r, 1, BobRegistration)
        \/ AddProject(r, 1, ProjBody(Web, Description, Jan15, NoDate, "design"), FALSE)
        \/ RegisterCheck(r)
        \/ RegisterInsert(r)
        \/ AddProjectInsert(r)

SpecSetup == InitFresh /\ [][NextSetup]_vars

\* a route behind the guards of middleware/auth.js, while time passes
NextTimeout ==
    \/ Tick
    \/ \E r \in Req :
        \/ \E s \in Sid : Login(r, s, TestUserLogin)
        \/ \E s \in Sid : \E xhr \in BOOLEAN : Guarded(r, s, xhr)
        \/ LoginFind(r)
        \/ LoginCompare(r)
        \/ GuardedHandler(r)

SpecTimeout == InitApp /\ [][NextTimeout]_vars

\* a route behind requireProjectOwnership: client 1 logs in as the seeded
\* user, who owns project 1, client 2 registers, and both ask for project 1
\* and for an id no project has, as a browser and as a JSON client
NextOwnership ==
    \E r \in Req :
        \/ Login(r, 1, TestUserLogin)
        \/ Register(r, 2, BobRegistration)
        \/ \E s \in Sid : \E pid \in {1, nextPid} : \E xhr \in BOOLEAN :
               OwnershipGuarded(r, s, pid, xhr)
        \/ LoginFind(r)
        \/ LoginCompare(r)
        \/ RegisterCheck(r)
        \/ RegisterInsert(r)
        \/ OwnershipQuery(r)
        \/ OwnedHandler(r)

SpecOwnership == InitApp /\ [][NextOwnership]_vars

\* the tokens a form posts in its hidden _csrf field: none, or some token
CsrfTokens == {"", "c0ffee"}

WithToken(body, token) == [body EXCEPT !._csrf = token]

\* the mutating routes as app.js mounts them, one request at a time, each form
\* posted without and with a token: client 1 logs in as the seeded user,
\* client 2 registers
NextCsrf ==
    \E r \in {1} :
        \/ \E k \in CsrfTokens : Login(r, 1, WithToken(TestUserLogin, k))
        \/ \E k \in CsrfTokens : Register(r, 2, WithToken(BobRegistration, k))
        \/ \E s \in Sid : Logout(r, s, FALSE)
        \/ \E s \in Sid : \E k \in CsrfTokens : AddProject(r, s, WithToken(GuardBody, k), FALSE)
        \/ \E s \in Sid : \E k \in CsrfTokens :
               EditProject(r, s, 1, WithToken(GuardBody, k), FALSE)
        \/ \E s \in Sid : DeleteProject(r, s, 1, FALSE)
        \/ LoginFind(r)
        \/ LoginCompare(r)
        \/ RegisterCheck(r)
        \/ RegisterInsert(r)
        \/ AddProjectInsert(r)
        \/ EditProjectCheck(r)
        \/ EditProjectUpdate(r)
        \/ DeleteProjectExec(r)

SpecCsrf == InitApp /\ [][NextCsrf]_vars

\* a login route behind authRateLimit() while time passes: address 1 tries as
\* a browser and as a JSON client, address 2 tries as a browser while the
\* table holds no entry for it
NextLimiter ==
    \/ TickHalfWindow
    \/ \E r \in Req :
        \/ \E xhr \in BOOLEAN : LimitedLogin(r, 1, xhr)
        \/ attempts[2] = NoAttempts /\ LimitedLogin(r, 2, FALSE)
        \/ RecordFailedAttempt(r)
        \/ ClearFailedAttempts(r)

SpecLimiter == InitApp /\ [][NextLimiter]_vars

\* one form after another from a guest: to a route behind validateAndSanitize,
\* to a route behind sanitizeRequest, and to POST /register
NextValidate ==
    \E r \in {1} :
        \/ \E b \in ValidateInputs : Validated(r, 1, b)
        \/ \E b \in ValidateInputs : Sanitized(r, 1, b)
        \/ \E b \in ValidateInputs : Register(r, 1, b)
        \/ ValidatedHandler(r)
        \/ RegisterCheck(r)
        \/ RegisterInsert(r)
        \/ Logout(r, 1, FALSE)

SpecValidate == InitApp /\ [][NextValidate]_vars

\* the routes of a logged-in user and the registration of another, one
\* request at a time, with statements that may fail
NextFailure ==
    \E r \in {1} :
        \/ Login(r, 1, TestUserLogin)
        \/ Register(r, 2, BobRegistration)
        \/ Dashboard(r, 1, FALSE)
        \/ DashboardFails(r, 1)
        \/ \E development \in BOOLEAN : MalformedJson(r, 1, development)
        \/ AddProject(r, 1, GuardBody, FALSE)
        \/ EditForm(r, 1, 1, FALSE)
        \/ EditProject(r, 1, 1, GuardBody, FALSE)
        \/ DeleteProject(r, 1, 1, FALSE)
        \/ StatementFails(r)
        \/ LoginFind(r)
        \/ LoginCompare(r)
        \/ RegisterCheck(r)
        \/ RegisterInsert(r)
        \/ AddProjectInsert(r)
        \/ EditFormQuery(r)
        \/ EditProjectCheck(r)
        \/ EditProjectUpdate(r)
        \/ DeleteProjectExec(r)

SpecFailure == InitApp /\ [][NextFailure]_vars

\* registrations that meet the seeded user: its username, its email, and one
\* that meets neither
SeedRaceInputs ==
    { RegBody(TestUserName, MailB, GoodPw, GoodPw),
      RegBody(Zed, TestUserEmail, GoodPw, GoodPw),
      BobRegistration }

\* setupDatabase() run and run again on a server with an empty store, while
\* two clients register once the users table is there
NextSeed ==
    \/ SetupStep
    \/ \E r \in Req :
        \/ \E s \in Sid : \E b \in SeedRaceInputs : schema.users /\ Register(r, s, b)
        \/ RegisterCheck(r)
        \/ RegisterInsert(r)

SpecSeed == InitFresh /\ [][NextSeed]_vars

\* setupDatabase() run and run again on a server with an empty store, while
\* one client registers, the other logs in as the seeded user (both on the
\* first slot), and both add projects once the tables are there
NextRefs ==
    \/ SetupStep
    \/ \E r \in Req :
        \/ r = 1 /\ schema.users /\ Register(r, 1, BobRegistration)
        \/ r = 1 /\ schema.users /\ Login(r, 2, TestUserLogin)
        \/ \E s \in Sid : schema.projects /\ AddProject(r, s, GuardBody, FALSE)
        \/ RegisterCheck(r)
        \/ RegisterInsert(r)
        \/ LoginFind(r)
        \/ LoginCompare(r)
        \/ AddProjectInsert(r)

SpecRefs == InitFresh /\ [][NextRefs]_vars

\* initializeApp() on a server with an empty store, with steps of its
\* setupDatabase() that may fail, and setup.js run on its own before or after
NextInit ==
    \/ \E connected \in BOOLEAN : InitializeApp(connected)
    \/ SetupStep
    \/ SetupStepFails
    \/ InitDatabaseReady
    \/ InitRequireApp

SpecInit == InitFresh /\ [][NextInit]_vars

\* the seeded user one project short of the limit: the three sample projects
\* and 46 it has added
InitCap ==
    /\ users = {UserRow(1, TestUserName, TestUserEmail, Hash(TestUserPassword))}
    /\ projects =
           {ProjectRow(i, SampleProjects[i].title, SampleProjects[i].short_description,
                       SampleProjects[i].start_date, NoDate, SampleProjects[i].phase, 1)
            : i \in 1..Len(SampleProjects)}
           \cup {ProjectRow(i, Trim(GuardBody.title), Trim(GuardBody.short_description),
                            GuardBody.start_date, GuardBody.end_date, GuardBody.phase, 1)
                 : i \in (Len(SampleProjects) + 1)..(MaxProjectsPerUser - 1)}
    /\ nextUid = 2
    /\ nextPid = MaxProjectsPerUser
    /\ schema = SchemaAll
    /\ sessions = [s \in Sid |-> EmptySession]
    /\ reqs = [r \in Req |-> IdleReq]
    /\ setup = [pc |-> "done", insertId |-> 1, i |-> Len(SampleProjects)]
    /\ setupRuns = 1
    /\ now = TickMs
    /\ attempts = NoEntries
    /\ init = InitIdle

\* the seeded user logs in and adds projects through the guarded route, from
\* a browser and from a script, with count queries that may fail
NextCap ==
    \E r \in Req :
        \/ Login(r, 1, TestUserLogin)
        \/ \E xhr \in BOOLEAN : CappedAddProject(r, 1, GuardBody, xhr)
        \/ \E answered \in BOOLEAN : CappedCount(r, answered)
        \/ LoginFind(r)
        \/ LoginCompare(r)
        \/ AddProjectInsert(r)

SpecCap == InitCap /\ [][NextCap]_vars

\* every text of at most MaxTextLen characters out of a space, the two markup
\* characters and a letter
SanitizeTexts == UNION {[1..k -> {Space, "<", ">", "a"}] : k \in 0..MaxTextLen}

\* one form after another to a route behind sanitizeRequest, with every text
\* as its title and as its password, which sanitizeRequest leaves as sent
NextSanitize ==
    \E r \in {1} :
        \/ \E value \in SanitizeTexts :
               Sanitized(r, 1, [NoBody EXCEPT !.title = value, !.password = value])
        \/ ValidatedHandler(r)

SpecSanitize == InitApp /\ [][NextSanitize]_vars

\* one client with two requests in flight: it logs in as the seeded user, looks
\* at its dashboard, adds projects and logs out, from a browser or a script
NextSession ==
    \E r \in Req :
        \/ Login(r, 1, TestUserLogin)
        \/ \E xhr \in BOOLEAN : Logout(r, 1, xhr)
        \/ Dashboard(r, 1, FALSE)
        \/ AddProject(r, 1, GuardBody, FALSE)
        \/ LoginFind(r)
        \/ LoginCompare(r)
        \/ AddProjectInsert(r)

SpecSession == InitApp /\ [][NextSession]_vars

\* one client with two requests in flight: it asks for a route behind the
\* guards of middleware/auth.js, logs in as the seeded user, adds projects and
\* looks at its dashboard, which is rendered at once or on a later tick
NextFlash ==
    \E r \in Req :
        \/ Guarded(r, 1, FALSE)
        \/ Login(r, 1, TestUserLogin)
        \/ AddProject(r, 1, GuardBody, FALSE)
        \/ Dashboard(r, 1, FALSE)
        \/ DashboardDeferred(r, 1, FALSE)
        \/ GuardedHandler(r)
        \/ LoginFind(r)
        \/ LoginCompare(r)
        \/ AddProjectInsert(r)

SpecFlash == InitApp /\ [][NextFlash]_vars

---------------------------------------------------------------------------
(* Properties *)

\* request r moves in this step
Steps(r) == reqs'[r] # reqs[r]

\* request r is answered in this step
Answered(r) == Steps(r) /\ reqs'[r].pc = "done"

\* a request of client s for route arrives on slot r in this step
Arriving(r, s, route) ==
    Free(r) /\ Steps(r) /\ reqs'[r].sid = s /\ reqs'[r].route = route

\* request r is a project edit or delete in flight whose session user is not
\* the owner of the project it names
NonOwnerRequest(r) ==
    /\ reqs[r].pc \in {"edit_check", "edit_update", "delete_exec"}
    /\ reqs[r].sess.user # NoUser
    /\ \E p \in projects : p.pid = reqs[r].pid /\ p.uid # reqs[r].sess.user.uid

\* C1: whatever the other requests do, no step of a POST /edit-project/:id or
\* POST /delete-project/:id whose session user is not the owner of the project
\* changes the projects table, and the step that answers it answers with a
\* redirect
NonOwnerLeavesProject ==
    [][\A r \in Req :
          (NonOwnerRequest(r) /\ Steps(r)) =>
              /\ projects' = projects
              /\ reqs'[r].pc = "done"
              /\ reqs'[r].resp.kind = "redirect"]_vars

\* C1: the registered user's delete and edit of project 1 have both been
\* answered with a redirect while project 1, the seeded user's, is still stored
NonOwnerRefused ==
    /\ \E p \in projects : p.pid = 1 /\ p.uid = 1
    /\ reqs[1].pc = "done" /\ reqs[1].route = "POST /delete-project"
    /\ reqs[2].pc = "done" /\ reqs[2].route = "POST /edit-project"
    /\ \A r \in Req : reqs[r].handler /\ reqs[r].pid = 1 /\ reqs[r].sid = 2
                      /\ reqs[r].resp = Redirect("/dashboard")
    /\ sessions[2].user.uid = 2
    /\ sessions[2].errorMessage # ""

\* the username or the email of a registration, as the handler reads them, is
\* in the users table
Present(body) ==
    \E u \in users : \/ u.username = RegisterSanitized(body).username
                     \/ u.email = RegisterSanitized(body).email

\* what a registration leaves in req.body: the body as sent, or sanitized
RegisterForms == [b \in RegisterInputs |-> {b, RegisterSanitized(b)}]

\* client s sends registration b, which arrives on slot r in this step
Registers(r, s, b) ==
    /\ Arriving(r, s, "POST /register")
    /\ reqs'[r].body \in RegisterForms[b]
    /\ Register(r, s, b)

UniquenessError == Render(200, "register", {"Username or email already exists"})

\* C2, as stated: a POST /register whose username or email is in the users
\* table is answered with the uniqueness error, by the step it arrives in or by
\* its existence check, and changes no row
DuplicateAlwaysUniquenessError ==
    [][\A r \in Req :
          /\ \A s \in Sid : \A b \in RegisterInputs :
                 (Registers(r, s, b) /\ Present(b)) =>
                     /\ users' = users
                     /\ reqs'[r].pc = "done" => reqs'[r].resp = UniquenessError
          /\ (At(r, "POST /register", "reg_check") /\ Present(reqs[r].body) /\ Steps(r)) =>
                 /\ users' = users
                 /\ Answered(r)
                 /\ reqs'[r].resp = UniquenessError]_vars

\* C2: no step of a POST /register whose username or email is in the users
\* table changes the table; when it comes from a session with no user and its
\* fields pass validation it reaches the existence check, which answers it with
\* the uniqueness error
DuplicateRejected ==
    [][\A r \in Req :
          /\ \A s \in Sid : \A b \in RegisterInputs :
                 (Registers(r, s, b) /\ Present(b)) =>
                     /\ users' = users
                     /\ (sessions[s].user = NoUser /\ RegisterErrors(b) = {}) =>
                            reqs'[r].pc = "reg_check"
          /\ (At(r, "POST /register", "reg_check") /\ Present(reqs[r].body) /\ Steps(r)) =>
                 /\ users' = users
                 /\ Answered(r)
                 /\ reqs'[r].resp = UniquenessError
          /\ (At(r, "POST /register", "reg_insert") /\ Present(reqs[r].body) /\ Steps(r)) =>
                 users' = users]_vars

\* C2: a registration naming the seeded user's email under a new username has
\* been answered with the uniqueness error and the seeded user is the only row
DuplicateEmailRefused ==
    \E r \in Req :
        /\ reqs[r].pc = "done" /\ reqs[r].route = "POST /register"
        /\ reqs[r].body.username = Zed /\ reqs[r].body.email = TestUserEmail
        /\ reqs[r].resp = UniquenessError
        /\ Cardinality(users) = 1

\* the username of a registration, trimmed, has fewer than 3 or more than 50
\* characters
UsernameOutOfRange(body) ==
    Len(Trim(body.username)) < 3 \/ Len(Trim(body.username)) > 50

UsernameLengthMessage == "Username must be between 3 and 50 characters"

\* C6, as stated: a POST /register whose trimmed username has fewer than 3 or
\* more than 50 characters is answered with the username length message and
\* changes no row
ShortUsernameAlwaysTold ==
    [][\A r \in Req : \A s \in Sid : \A b \in RegisterInputs :
          (Registers(r, s, b) /\ UsernameOutOfRange(b)) =>
              /\ reqs'[r].pc = "done"
              /\ UsernameLengthMessage \in reqs'[r].resp.errors
              /\ users' = users]_vars

\* C6: a POST /register whose trimmed username has fewer than 3 or more than
\* 50 characters is answered by the step it arrives in and changes no row, and
\* when its session has no user the answer shows the form again with the
\* username length message
ShortUsernameRejected ==
    [][\A r \in Req : \A s \in Sid : \A b \in RegisterInputs :
          (Registers(r, s, b) /\ UsernameOutOfRange(b)) =>
              /\ reqs'[r].pc = "done"
              /\ users' = users
              /\ sessions[s].user = NoUser =>
                     /\ reqs'[r].resp.kind = "render"
                     /\ reqs'[r].resp.target = "register"
                     /\ UsernameLengthMessage \in reqs'[r].resp.errors]_vars

\* C6: a registration with a username of 51 characters and one whose username
\* trims to two characters have both been answered with the length message
ShortAndLongUsernameRefused ==
    /\ reqs[1].pc = "done" /\ reqs[1].route = "POST /register"
    /\ reqs[1].body.username = Long51
    /\ UsernameLengthMessage \in reqs[1].resp.errors
    /\ reqs[2].pc = "done" /\ reqs[2].route = "POST /register"
    /\ reqs[2].body.username = Ab
    /\ reqs[2].body.email = MailB
    /\ UsernameLengthMessage \in reqs[2].resp.errors

\* the row and the session user a registration in flight is about to create
NewUserRow(rec) ==
    [uid |-> nextUid, username |-> rec.body.username, email |-> rec.body.email,
     password |-> Hash(rec.body.password)]
NewSessionUser(rec) ==
    [uid |-> nextUid, username |-> rec.body.username, email |-> rec.body.email]

\* a registration in flight ends well in this step: the redirect, the session
\* user, and one more row in users
RegistersWell(r) ==
    /\ reqs'[r].pc = "done"
    /\ reqs'[r].resp = Redirect("/dashboard")
    /\ sessions'[reqs[r].sid].user = NewSessionUser(reqs[r])
    /\ users' = users \cup {NewUserRow(reqs[r])}
    /\ Cardinality(users') = Cardinality(users) + 1

WrongPasswordLogin(r) ==
    /\ reqs[r].pc = "done" /\ reqs[r].route = "POST /login" /\ reqs[r].handler
    /\ reqs[r].found # NoRow
    /\ reqs[r].found.password # Hash(reqs[r].body.password)

\* an answered POST /login, with username and password given, whose handler
\* found no row for the username
UnknownUserLogin(r) ==
    /\ reqs[r].pc = "done" /\ reqs[r].route = "POST /login" /\ reqs[r].handler
    /\ reqs[r].errors = {}
    /\ reqs[r].found = NoRow

\* C3: a POST /login that names an existing user with a wrong password and one
\* that names no user get the same response (status, view, error text); the
\* step that answers either leaves every session as it was; and from a session
\* that has a user every POST /login gets the same redirect
LoginDoesNotTellUsers ==
    /\ [](\A r1 \in Req : \A r2 \in Req :
              (WrongPasswordLogin(r1) /\ UnknownUserLogin(r2)) =>
                  reqs[r1].resp = reqs[r2].resp)
    /\ [][\A r \in Req :
              /\ (Answered(r) /\ (WrongPasswordLogin(r)' \/ UnknownUserLogin(r)')) =>
                     /\ sessions' = sessions
                     /\ reqs'[r].resp.kind = "render"
              /\ \A s \in Sid :
                     (Arriving(r, s, "POST /login") /\ sessions[s].user # NoUser) =>
                         /\ reqs'[r].resp = Redirect("/dashboard")
                         /\ sessions' = sessions]_vars

\* C3: two logins with the same password have been answered, one naming the
\* seeded user, whose password it is not, and one naming nobody, and neither
\* client's session has a user
BothLoginsRefused ==
    /\ WrongPasswordLogin(1) /\ reqs[1].body = LoginBody(TestUserName, GoodPw)
    /\ UnknownUserLogin(2) /\ reqs[2].body = LoginBody(Zed, GoodPw)
    /\ reqs[1].sid # reqs[2].sid
    /\ \A s \in Sid : sessions[s].user = NoUser

\* what a project creation leaves in req.body: the body as sent, or sanitized
ProjectForms == [b \in AddProjectInputs |-> {b, ProjectSanitized(b)}]

\* client s sends project creation b, which arrives on slot r in this step
Adds(r, s, b) ==
    /\ Arriving(r, s, "POST /add-project")
    /\ reqs'[r].body \in ProjectForms[b]
    /\ AddProject(r, s, b, FALSE)

\* both are dates and end is a later day than start
StrictlyLater(end, start) ==
    /\ Len(end) = 3 /\ end[2] \in 1..12 /\ end[3] \in 1..31
    /\ Len(start) = 3 /\ start[2] \in 1..12 /\ start[3] \in 1..31
    /\ \/ end[1] > start[1]
       \/ end[1] = start[1] /\ end[2] > start[2]
       \/ end[1] = start[1] /\ end[2] = start[2] /\ end[3] > start[3]

\* request r is refused in this step: the login redirect or the form with errors
Refused(r) ==
    /\ reqs'[r].pc = "done"
    /\ \/ reqs'[r].resp = Redirect("/login")
       \/ reqs'[r].resp.kind = "render" /\ reqs'[r].resp.errors # {}

\* the rows of projects' whose pid no row of projects has
NewProjects == {p \in projects' : \A q \in projects : q.pid # p.pid}

\* C4: a POST /add-project with an end_date that is not strictly later than
\* its start_date is refused by the step it arrives in and inserts nothing,
\* an authenticated one with the message 'End date must be after start date'
\* when both are dates; and every row a step adds to projects has no end_date
\* or one strictly later than its start_date
EndDateAfterStartDate ==
    [][/\ \A r \in Req : \A s \in Sid : \A b \in AddProjectInputs :
              (Adds(r, s, b) /\ b.end_date # <<>> /\ ~StrictlyLater(b.end_date, b.start_date)) =>
                  /\ Refused(r)
                  /\ projects' = projects
                  /\ (sessions[s].user # NoUser /\ StrictlyLater(b.start_date, b.end_date)) =>
                         "End date must be after start date" \in reqs'[r].resp.errors
                  /\ (sessions[s].user # NoUser /\ b.start_date = b.end_date) =>
                         "End date must be after start date" \in reqs'[r].resp.errors
       /\ \A p \in NewProjects :
              p.end_date = <<>> \/ StrictlyLater(p.end_date, p.start_date)]_vars

\* C4: a creation whose end_date is its start_date has been refused with the
\* message, and a project ending 2024-02-01 and starting 2024-01-15 is stored
EqualDatesRefused ==
    /\ reqs[1].pc = "done" /\ reqs[1].route = "POST /add-project"
    /\ reqs[1].body.start_date = Jan15 /\ reqs[1].body.end_date = Jan15
    /\ "End date must be after start date" \in reqs[1].resp.errors
    /\ \E p \in projects : p.pid > 3 /\ p.start_date = Jan15 /\ p.end_date = Feb01
    /\ \A p \in projects : p.end_date # Jan15

FivePhases == {"design", "development", "testing", "deployment", "complete"}

\* C5, as stated: a POST /add-project whose phase is not one of the five is
\* answered with 'Please select a valid phase' and inserts nothing; and every
\* stored project's phase is one of the five
InvalidPhaseAlwaysTold ==
    /\ [](\A p \in projects : p.phase \in FivePhases)
    /\ [][\A r \in Req : \A s \in Sid : \A b \in AddProjectInputs :
              (Adds(r, s, b) /\ b.phase \notin FivePhases) =>
                  /\ reqs'[r].pc = "done"
                  /\ "Please select a valid phase" \in reqs'[r].resp.errors
                  /\ projects' = projects]_vars

\* C5: a POST /add-project whose phase is not one of the five is refused by
\* the step it arrives in and inserts nothing, and when its session has a user
\* the answer is the form with 'Please select a valid phase'; and every stored
\* project's phase is one of the five
InvalidPhaseRejected ==
    /\ [](\A p \in projects : p.phase \in FivePhases)
    /\ [][\A r \in Req : \A s \in Sid : \A b \in AddProjectInputs :
              (Adds(r, s, b) /\ b.phase \notin FivePhases) =>
                  /\ Refused(r)
                  /\ projects' = projects
                  /\ sessions[s].user # NoUser =>
                         /\ reqs'[r].resp.target = "add-project"
                         /\ "Please select a valid phase" \in reqs'[r].resp.errors]_vars

\* C5: a creation with phase "unknown" has been answered with the message
\* after a project was added to the seeded three
UnknownPhaseRefused ==
    /\ reqs[1].pc = "done" /\ reqs[1].route = "POST /add-project"
    /\ reqs[1].body.phase = "unknown"
    /\ reqs[1].resp = Render(200, "add-project", {"Please select a valid phase"})
    /\ Cardinality(projects) = 4
    /\ sessions[1].user.uid = 1

\* C8: a step of setupDatabase() taken after a run of it has completed changes
\* neither the schema nor any row nor any counter of the store, whatever the
\* application has stored in between; so a second run leaves the store the
\* first run and the application made
BootstrapIdempotent ==
    [][(setup' # setup /\ setupRuns >= 1) =>
           /\ schema' = schema
           /\ users' = users
           /\ projects' = projects
           /\ nextUid' = nextUid
           /\ nextPid' = nextPid]_vars

\* C8: setupDatabase() has run twice over a store holding the seeded user and
\* projects and a registered user with a project added
BootstrapRunTwice ==
    /\ setupRuns = 2
    /\ setup.pc = "done"
    /\ schema = [db |-> TRUE, users |-> TRUE, projects |-> TRUE]
    /\ \E u \in users : u.username = TestUserName
    /\ \E u \in users : u.username = Bob /\ \E p \in projects : p.uid = u.uid
    /\ Cardinality({p \in projects : p.title \in {SampleProjects[i].title : i \in 1..3}}) = 3

\* a request of client s for one of the protected routes arrives on slot r in
\* this step; xhr says whether the client asks for JSON
ProtectedArrival(r, s, xhr) ==
    \/ Logout(r, s, xhr)
    \/ Dashboard(r, s, xhr)
    \/ AddForm(r, s, xhr)
    \/ AddProject(r, s, GuardBody, xhr)
    \/ EditForm(r, s, 1, xhr)
    \/ EditProject(r, s, 1, GuardBody, xhr)
    \/ DeleteProject(r, s, 1, xhr)

\* C9, as stated: a request to a protected route from a session with no user
\* is answered by the guard, with a structured 401 when the client asks for
\* JSON and with a redirect to /login otherwise; its handler does not run and
\* no users or projects row changes
AnonymousRejectedByAcceptType ==
    [][\A r \in Req : \A s \in Sid : \A xhr \in BOOLEAN :
          (sessions[s].user = NoUser /\ ProtectedArrival(r, s, xhr)) =>
              /\ reqs'[r].pc = "done"
              /\ ~reqs'[r].handler
              /\ users' = users
              /\ projects' = projects
              /\ IF xhr
                 THEN reqs'[r].resp.kind = "json" /\ reqs'[r].resp.status = 401
                 ELSE reqs'[r].resp.kind = "redirect" /\ reqs'[r].resp.target = "/login"]_vars

\* C9, what the mounted guard does: a request to a protected route from a
\* session with no user is answered with the redirect to /login whatever the
\* client asks for; its handler does not run and no row changes
AnonymousRedirectedToLogin ==
    [][\A r \in Req : \A s \in Sid : \A xhr \in BOOLEAN :
          (sessions[s].user = NoUser /\ ProtectedArrival(r, s, xhr)) =>
              /\ reqs'[r].pc = "done"
              /\ ~reqs'[r].handler
              /\ users' = users
              /\ projects' = projects
              /\ sessions' = sessions
              /\ reqs'[r].resp = Redirect("/login")]_vars

\* C9: the client that never logs in has asked to delete project 1 and has
\* been sent to /login, and project 1 is stored
AnonymousDeleteRedirected ==
    \E r \in Req :
        /\ reqs[r].pc = "done" /\ reqs[r].route = "POST /delete-project"
        /\ reqs[r].sid = 2 /\ reqs[r].pid = 1
        /\ ~reqs[r].handler
        /\ reqs[r].resp = Redirect("/login")
        /\ sessions[2].user = NoUser
        /\ \E p \in projects : p.pid = 1

\* client s has a user and a last-activity timestamp more than 24 hours old
StaleSession(s) ==
    /\ sessions[s].user # NoUser
    /\ sessions[s].lastActivity # 0
    /\ now - sessions[s].lastActivity > 86400000

\* C10: a request that reaches checkSessionTimeout from a session with a user
\* whose last activity is more than 24 hours before the request is answered by
\* the guard, with a 401 JSON error when the client asks for JSON and with a
\* redirect to the login page otherwise; the session is destroyed and the
\* handler does not run
StaleSessionRejected ==
    [][\A r \in Req : \A s \in Sid : \A xhr \in BOOLEAN :
          (StaleSession(s) /\ Guarded(r, s, xhr)) =>
              /\ reqs'[r].pc = "done"
              /\ ~reqs'[r].handler
              /\ sessions'[s] = EmptySession
              /\ IF xhr
                 THEN reqs'[r].resp.kind = "json" /\ reqs'[r].resp.status = 401
                 ELSE /\ reqs'[r].resp.kind = "redirect"
                      /\ reqs'[r].resp.target = "/login?message=session-expired"]_vars

\* C10: at hour 48 a request from a session last active more than 24 hours
\* before has been answered with the session-expired redirect and the session
\* is gone, while the other client, last active at hour 36, has been served
StaleSessionRefused ==
    /\ now = 4 * TickMs
    /\ reqs[1].pc = "done" /\ reqs[1].route = "GET /guarded"
    /\ reqs[1].resp = Redirect("/login?message=session-expired")
    /\ ~reqs[1].handler
    /\ sessions[reqs[1].sid] = EmptySession
    /\ reqs[2].pc = "done" /\ reqs[2].route = "GET /guarded" /\ reqs[2].handler
    /\ reqs[2].sid # reqs[1].sid
    /\ sessions[reqs[2].sid].lastActivity = 3 * TickMs

\* client s has a user, and a request of its session passed the session guard
\* at most 24 hours ago
RecentlyActive(s) ==
    /\ sessions[s].user # NoUser
    /\ \E q \in Req : /\ reqs[q].pc = "done" /\ reqs[q].route = "GET /guarded"
                      /\ reqs[q].sid = s /\ reqs[q].handler
                      /\ now - reqs[q].at <= 86400000

\* C11: a request that passes checkSessionTimeout from a session with a user
\* carries the request time as its session's last-activity timestamp, and a
\* request from a session that passed the guard at most 24 hours before is not
\* answered as expired
ActiveSessionNeverExpired ==
    [][\A r \in Req : \A s \in Sid : \A xhr \in BOOLEAN :
          (sessions[s].user # NoUser /\ Guarded(r, s, xhr)) =>
              /\ reqs'[r].handler => reqs'[r].sess.lastActivity = now
              /\ RecentlyActive(s) => reqs'[r].handler]_vars

\* C11, what holds: a request from a session with a user that is not stale
\* passes the guard with the request time as its session's last-activity
\* timestamp
HitRefreshesLastActivity ==
    [][\A r \in Req : \A s \in Sid : \A xhr \in BOOLEAN :
          (sessions[s].user # NoUser /\ ~StaleSession(s) /\ Guarded(r, s, xhr)) =>
              reqs'[r].handler /\ reqs'[r].sess.lastActivity = now]_vars

\* C11: at hour 48 a request has been answered as expired although a request
\* of the same session passed the guard at hour 24: the request that arrived at
\* hour 12 was answered after it and stored its own, older, timestamp
OverlappingHitExpired ==
    /\ now = 4 * TickMs
    /\ reqs[1].pc = "done" /\ reqs[1].route = "GET /guarded" /\ reqs[1].at = now
    /\ reqs[1].resp = Redirect("/login?message=session-expired")
    /\ ~reqs[1].handler
    /\ reqs[2].pc = "done" /\ reqs[2].route = "GET /guarded" /\ reqs[2].handler
    /\ reqs[2].sid = reqs[1].sid
    /\ reqs[2].at = 2 * TickMs

\* request r is at the ownership guard's query, with a session user
AtOwnershipQuery(r) ==
    At(r, "POST /owned", "owned_query") /\ Steps(r) /\ reqs[r].sess.user # NoUser

\* the guard's step on request r changes no row and lets the request through
\* exactly when its session user owns the project it names
OwnershipPassesOwnerOnly(r) ==
    /\ users' = users /\ projects' = projects
    /\ reqs'[r].handler <=> ProjectOwners(reqs[r].pid) = {reqs[r].sess.user.uid}
    /\ reqs'[r].handler => reqs'[r].pc = "owned_handler"
    /\ ~reqs'[r].handler => reqs'[r].pc = "done"

\* C12 as stated: the ownership guard answers a request from an authenticated
\* session with 404 when no project has the id and with 403 when the owner is
\* not the session user, and passes it to the handler when it is; the handler
\* runs only then and the guard changes no row
OwnershipThreeStatuses ==
    [][\A r \in Req :
          AtOwnershipQuery(r) =>
              /\ OwnershipPassesOwnerOnly(r)
              /\ ProjectOwners(reqs[r].pid) = {} => reqs'[r].resp.status = 404
              /\ (\E uid \in ProjectOwners(reqs[r].pid) : uid # reqs[r].sess.user.uid) =>
                     reqs'[r].resp.status = 403]_vars

\* C12: the ownership guard ends in one of three outcomes: not found, when no
\* project has the id; forbidden, when the owner is not the session user; and
\* pass-through when it is.  Not found and forbidden are a JSON error with
\* status 404 and 403 when the client asks for JSON, and otherwise a redirect
\* to the dashboard with the message left in the session (unless another
\* request of the session wrote it in between).  The handler runs only in the
\* third case and the guard changes no row
OwnershipThreeOutcomes ==
    [][\A r \in Req :
          AtOwnershipQuery(r) =>
              /\ OwnershipPassesOwnerOnly(r)
              /\ LET missing == ProjectOwners(reqs[r].pid) = {}
                     resp == reqs'[r].resp
                 IN  ~reqs'[r].handler =>
                         IF reqs[r].xhr
                         THEN /\ resp.kind = "json"
                              /\ resp.status = IF missing THEN 404 ELSE 403
                              /\ sessions' = sessions
                         ELSE /\ resp = Redirect("/dashboard")
                              /\ sessions[reqs[r].sid] = reqs[r].sess0 =>
                                     sessions'[reqs[r].sid].errorMessage =
                                         IF missing THEN "Project not found."
                                         ELSE "You do not have permission to access this project."]_vars

\* C12: the registered user, who owns nothing, has asked for project 1 as a
\* JSON client and been answered 403, and for an id no project has as a browser
\* and been redirected to the dashboard with the not-found message
OwnershipRefusedBothWays ==
    /\ reqs[1].pc = "done" /\ reqs[1].route = "POST /owned" /\ reqs[1].sid = 2
    /\ reqs[1].pid = 1 /\ reqs[1].xhr /\ ~reqs[1].handler
    /\ reqs[1].resp = Json(403, {"Access denied"})
    /\ reqs[2].pc = "done" /\ reqs[2].route = "POST /owned" /\ reqs[2].sid = 2
    /\ reqs[2].pid = nextPid /\ ~reqs[2].xhr /\ ~reqs[2].handler
    /\ reqs[2].resp = Redirect("/dashboard")
    /\ sessions[2].user.uid = 2
    /\ sessions[2].errorMessage = "Project not found."
    /\ \E p \in projects : p.pid = 1 /\ p.uid = 1

MutatingRoutes ==
    {"POST /login", "POST /register", "POST /logout", "POST /add-project",
     "POST /edit-project", "POST /delete-project"}

\* a mutating request of client s arrives on slot r in this step
MutatingArrival(r, s) ==
    Free(r) /\ Steps(r) /\ reqs'[r].sid = s /\ reqs'[r].route \in MutatingRoutes

\* C13: a mutating request reaches its route handler only if the token it
\* carries equals the token stored in its session, and a request whose token is
\* missing or different is answered 403 and changes no state
CsrfTokenRequired ==
    [][\A r \in Req : \A s \in Sid :
          MutatingArrival(r, s) =>
              IF ValidCSRFToken(sessions[s].csrfToken, reqs'[r].body._csrf)
              THEN TRUE
              ELSE /\ ~reqs'[r].handler
                   /\ reqs'[r].pc = "done"
                   /\ reqs'[r].resp.status = 403
                   /\ <<storeVars, sessions>>' = <<storeVars, sessions>>]_vars

\* C13: a POST /delete-project/1 that carried no token, from a session that
\* holds none, has run its handler and project 1 is gone
DeletedWithoutToken ==
    /\ reqs[1].pc = "done" /\ reqs[1].route = "POST /delete-project"
    /\ reqs[1].body._csrf = "" /\ sessions[reqs[1].sid].csrfToken = ""
    /\ reqs[1].handler
    /\ reqs[1].resp = Redirect("/dashboard")
    /\ sessions[reqs[1].sid].successMessage = "Project deleted successfully!"
    /\ ~\E p \in projects : p.pid = 1

\* the limiter counts five or more attempts for address s in a window that has
\* not rolled over
AddressBlocked(s) ==
    /\ attempts[s].count >= 5
    /\ now - attempts[s].firstAttempt <= 900000

\* C14: once the attempts counted for an address in its current window reach
\* the maximum, a request from that address is answered by the limiter with
\* the time left in the window, in minutes, and is not passed to the handler
\* behind it; the count stays as it is
BlockedAddressRejected ==
    [][\A r \in Req : \A s \in Sid : \A xhr \in BOOLEAN :
          (AddressBlocked(s) /\ LimitedLogin(r, s, xhr)) =>
              /\ reqs'[r].pc = "done"
              /\ ~reqs'[r].handler
              /\ reqs'[r].resp.status = IF xhr THEN 429 ELSE 200
              /\ reqs'[r].resp.errors # {}
              /\ reqs'[r].resp.timeLeft * 60000 >= 900000 - (now - attempts[s].firstAttempt)
              /\ (reqs'[r].resp.timeLeft - 1) * 60000 < 900000 - (now - attempts[s].firstAttempt)
              /\ attempts'[s] = attempts[s]]_vars

\* C14: half a window after its first attempt, address 1, with five attempts
\* counted, has been answered 429 with eight minutes left, and its count is five
BlockedAddressToldToWait ==
    \E r \in Req :
        /\ reqs[r].pc = "done" /\ reqs[r].route = "POST /limited-login" /\ reqs[r].sid = 1
        /\ ~reqs[r].handler
        /\ reqs[r].resp.status = 429 /\ reqs[r].resp.timeLeft = 8
        /\ attempts[1].count = 5
        /\ now = reqs[r].at /\ now - attempts[1].firstAttempt = 450000

\* C15: when the limiter has processed a request its table holds no entry
\* whose first attempt is more than windowMs in the past; a request from an
\* address whose entry was that old is passed to the handler whatever the
\* entry counted, and the attempt that request then records starts a count of
\* one dated by the request's arrival
StaleEntriesEvicted ==
    [][\A r \in Req :
          /\ \A s \in Sid : \A xhr \in BOOLEAN :
                LimitedLogin(r, s, xhr) =>
                    /\ \A a \in Sid : attempts'[a] # NoAttempts =>
                                          now - attempts'[a].firstAttempt <= 900000
                    /\ (attempts[s] # NoAttempts /\ now - attempts[s].firstAttempt > 900000) =>
                           /\ reqs'[r].handler
                           /\ reqs'[r].userAttempts = 0
                           /\ attempts'[s] = NoAttempts
          /\ (RecordFailedAttempt(r) /\ reqs[r].userAttempts = 0) =>
                 /\ attempts'[reqs[r].sid].count = 1
                 /\ attempts'[reqs[r].sid].firstAttempt = reqs[r].at]_vars

\* C15: address 1 was blocked half a window after its first attempt; a window
\* later its next request has been passed to the handler and has recorded the
\* first attempt of a new count
BlockedAddressAdmittedAgain ==
    /\ reqs[2].pc = "done" /\ reqs[2].route = "POST /limited-login" /\ reqs[2].sid = 1
    /\ ~reqs[2].handler /\ reqs[2].resp.timeLeft = 8
    /\ reqs[1].pc = "done" /\ reqs[1].route = "POST /limited-login" /\ reqs[1].sid = 1
    /\ reqs[1].handler
    /\ reqs[1].at = reqs[2].at + 900000
    /\ attempts[1].count = 1 /\ attempts[1].firstAttempt = reqs[1].at

\* a value breaks one of the rules validateAndSanitize applies to it
Violates(rules, value) ==
    \/ rules.required /\ value = <<>>
    \/ /\ value # <<>>
       /\ \/ rules.minLength # 0 /\ Len(value) < rules.minLength
          \/ rules.maxLength # 0 /\ Len(value) > rules.maxLength
          \/ rules.isEmail /\ ~IsEmail(value)
          \/ rules.isNumeric /\ ~IsNumeric(value)
          \/ rules.pattern = "word" /\ ~MatchesWord(value)

\* the messages validateAndSanitize has for a field
MessagesOf(f) ==
    {RuleMessages[f].required, RuleMessages[f].minLength, RuleMessages[f].maxLength,
     RuleMessages[f].isEmail, RuleMessages[f].isNumeric, RuleMessages[f].pattern}

\* the messages registerValidation has for each field
RegisterMessages ==
    [username |-> {"Username must be between 3 and 50 characters",
                   "Username can only contain letters, numbers, and underscores"},
     email |-> {"Please provide a valid email address"},
     password |-> {"Password must be at least 6 characters long",
                   "Password must contain at least one lowercase letter, one uppercase letter, and one number"},
     confirmPassword |-> {"Passwords do not match"}]

\* a field of a registration form, as the validators read it, breaks a rule
RegisterViolates(field, body) ==
    CASE field = "username" -> ~IsLength(body.username, 3, 50) \/ ~MatchesWord(body.username)
      [] field = "email" -> ~IsEmail(body.email)
      [] field = "password" -> Len(body.password) < 6 \/ ~MatchesPasswordPattern(body.password)
      [] field = "confirmPassword" -> body.confirmPassword # body.password

Clean(text) == Trim(text) = text /\ \A i \in 1..Len(text) : text[i] \notin {"<", ">"}

SanitizingRoutes == {"POST /validated", "POST /sanitized", "POST /register"}

GenericMessages ==
    {"Registration failed. Please try again.", "Login failed. Please try again.",
     "Failed to add project. Please try again.", "Failed to update project. Please try again.",
     "Failed to delete project. Please try again.", "Unable to load project for editing.",
     "Unable to load dashboard", "Something went wrong. Please try again later."}

\* a statement of request r fails in this step
FailingStep(r) ==
    \/ StatementFails(r)
    \/ \E s \in Sid : DashboardFails(r, s) /\ sessions[s].user # NoUser
    \/ \E s \in Sid : MalformedJson(r, s, FALSE)

CheckAndInsertNotAtomic ==
    [][\A r \in Req :
          /\ (At(r, "POST /register", "reg_check") /\ Steps(r)) =>
                 /\ users' = users
                 /\ reqs'[r].pc = "reg_insert" <=>
                        ExistingUsers(Trim(reqs[r].body.username), Trim(reqs[r].body.email)) = {}
          /\ (At(r, "POST /register", "reg_insert") /\ Steps(r)) =>
                 /\ reqs'[r].pc = "done"
                 /\ reqs'[r].resp.errors # RegisterExistsError]_vars

\* C19: two registrations with the same username have both passed the
\* existence check and neither has inserted
BothPassedExistenceCheck ==
    /\ At(1, "POST /register", "reg_insert")
    /\ At(2, "POST /register", "reg_insert")
    /\ Trim(reqs[1].body.username) = Trim(reqs[2].body.username)
    /\ ExistingUsers(Trim(reqs[1].body.username), Trim(reqs[1].body.email)) = {}
    /\ nextUid = 2

\* request r is a registration that passed the existence check and whose
\* username or email has been inserted by another request since
LostRace(r) ==
    /\ At(r, "POST /register", "reg_insert")
    /\ ExistingUsers(Trim(reqs[r].body.username), Trim(reqs[r].body.email)) # {}
    /\ Steps(r)

\* C20 as stated: a registration whose insert fails on a unique constraint is
\* answered with the 'already exists' message of the existence check, and its
\* session gets no user
LostRaceToldAlreadyExists ==
    [][\A r \in Req :
          LostRace(r) =>
              /\ reqs'[r].resp = Render(200, "register", RegisterExistsError)
              /\ reqs'[r].sess.user = NoUser
              /\ sessions' = sessions]_vars

\* C20: a registration whose insert fails on a unique constraint is answered
\* with the register form and the message of the catch block, 'Registration
\* failed. Please try again.'; it adds no row and its session gets no user
LostRaceToldRegistrationFailed ==
    [][\A r \in Req :
          LostRace(r) =>
              /\ reqs'[r].resp =
                     Render(200, "register", {"Registration failed. Please try again."})
              /\ users' = users /\ nextUid' = nextUid
              /\ reqs'[r].sess.user = NoUser
              /\ sessions' = sessions]_vars

\* C20: of two registrations of Bob from two clients that both passed the
\* existence check, the first was redirected to the dashboard and the second
\* was told that the registration failed; there is one row for Bob and the
\* second client's session has no user
LostRaceAnswered ==
    /\ reqs[1].pc = "done" /\ reqs[1].route = "POST /register" /\ reqs[1].sid = 1
    /\ reqs[2].pc = "done" /\ reqs[2].route = "POST /register" /\ reqs[2].sid = 2
    /\ Trim(reqs[1].body.username) = Bob /\ Trim(reqs[2].body.username) = Bob
    /\ reqs[1].resp = Redirect("/dashboard")
    /\ reqs[2].resp = Render(200, "register", {"Registration failed. Please try again."})
    /\ Cardinality({u \in users : u.username = Bob}) = 1
    /\ sessions[1].user # NoUser
    /\ sessions[2].user = NoUser

\* C21: no two rows of users share a username, an email or a uid
UsersUnique ==
    \A u \in users : \A v \in users :
        u # v => u.username # v.username /\ u.email # v.email /\ u.uid # v.uid

\* C21: a registration of 'testuser' passed its existence check on the empty
\* table, the seeding inserted its user first, and the registration was
\* refused by the unique constraint: there is one row named 'testuser', the
\* seeded one, beside a registered user
SeedWonTheRace ==
    /\ \E r \in Req :
           /\ reqs[r].pc = "done" /\ reqs[r].route = "POST /register"
           /\ reqs[r].body.username = TestUserName
           /\ reqs[r].resp = Render(200, "register", {"Registration failed. Please try again."})
    /\ \E u \in users : u.username = TestUserName /\ u.email = TestUserEmail
    /\ \E u \in users : u.username = Bob
    /\ setup.pc = "done"

\* every project row's owner id is the uid of a users row
OwnersExist == \A p \in projects : \E u \in users : u.uid = p.uid

\* C22: every project row's owner id is the uid of a users row, before and
\* after every step: a step adds a project only with the uid of the user of
\* the adding request's session or with the insert id of the sample user, and
\* no step removes a users row or changes its uid
ProjectOwnerExists ==
    [][/\ OwnersExist => OwnersExist'
       /\ \A p \in projects' \ projects :
              \/ setup.pc = "insertProject" /\ p.uid = setup.insertId
              \/ \E r \in Req : /\ At(r, "POST /add-project", "add_insert") /\ Steps(r)
                                /\ p.uid = reqs[r].sess.user.uid
                                /\ p.uid = sessions[reqs[r].sid].user.uid
       /\ schema.users => \A u \in users : \E v \in users' : v.uid = u.uid]_vars

\* C22: the seeded user owns the three sample projects and one it added, the
\* registered user owns one it added
BothOwnersHaveProjects ==
    /\ OwnersExist
    /\ Cardinality(users) = 2
    /\ Cardinality(projects) = 5
    /\ \E u \in users : u.username = Bob /\ \E p \in projects : p.uid = u.uid
    /\ \E u \in users : u.username = TestUserName
                        /\ Cardinality({p \in projects : p.uid = u.uid}) = 4

Owned(uid) == Cardinality({p \in projects : p.uid = uid})

\* C24: behind maxProjectsPerUser no user owns more than 50 projects
AtMostFiftyProjects ==
    \A u \in users : Owned(u.uid) <= 50

\* C24: two creation requests of the user with 49 projects both had their
\* count answered 49, both inserted and both were redirected to the dashboard:
\* the user owns 51 projects
FiftyOneProjects ==
    /\ Owned(1) = 51
    /\ \A r \in Req : /\ reqs[r].pc = "done" /\ reqs[r].route = "POST /add-project"
                      /\ reqs[r].resp = Redirect("/dashboard")
                      /\ reqs[r].sess0.successMessage = ""

\* C25: every recordFailedAttempt call of a request raises by one the count
\* stored for the request's address (from none to 1, on a first failure), so
\* the stored count is the number of failures recorded since the entry was
\* last evicted or cleared
EveryFailureCounted ==
    [][\A r \in Req :
          RecordFailedAttempt(r) =>
              attempts'[reqs[r].sid].count = attempts[reqs[r].sid].count + 1]_vars

\* C25: two requests from address 1 found no entry; the first has recorded its
\* failure, which made the entry, and the second is about to record its own on
\* the 'no entry' it holds
SecondFailureOnNoEntry ==
    /\ reqs[1].pc = "done" /\ reqs[1].route = "POST /limited-login" /\ reqs[1].sid = 1
    /\ reqs[1].resp = Render(200, "login", {"Invalid username or password"})
    /\ attempts[1].count = 1
    /\ At(2, "POST /limited-login", "limited_handler")
    /\ reqs[2].sid = 1
    /\ reqs[2].userAttempts = 0

\* C26: when POST /edit-project/:id reports 'Project updated successfully!',
\* the row with that id is there, is owned by the session's user and holds the
\* title, description, dates and phase that were sent
ReportedUpdateIsStored ==
    [][\A r \in Req :
          (/\ At(r, "POST /edit-project", "edit_update") /\ Steps(r)
           /\ reqs'[r].resp = Redirect("/dashboard")
           /\ sessions'[reqs[r].sid].successMessage = "Project updated successfully!") =>
              \E p \in projects' :
                  /\ p.pid = reqs[r].pid
                  /\ p.uid = reqs[r].sess.user.uid
                  /\ p.title = Trim(reqs[r].body.title)
                  /\ p.short_description = Trim(reqs[r].body.short_description)
                  /\ p.start_date = reqs[r].body.start_date
                  /\ p.end_date = reqs[r].body.end_date
                  /\ p.phase = reqs[r].body.phase]_vars

\* C26: the owner's edit of project 1 passed its ownership check, the owner's
\* delete removed the project, and the edit was then answered with a redirect
\* and 'Project updated successfully!' in the session: there is no project 1
UpdateReportedOnDeletedProject ==
    /\ \E r \in Req :
           /\ reqs[r].pc = "done" /\ reqs[r].route = "POST /edit-project" /\ reqs[r].pid = 1
           /\ reqs[r].resp = Redirect("/dashboard") /\ reqs[r].sid = 1
    /\ sessions[1].user.uid = 1
    /\ sessions[1].successMessage = "Project updated successfully!"
    /\ \A p \in projects : p.pid # 1

\* C27: what sanitizeInput returns has neither '<' nor '>' in it, has no white
\* space at either end, and is returned unchanged by sanitizeInput
SanitizeInputNormalises ==
    [][\A r \in Req : \A s \in Sid :
          Arriving(r, s, "POST /sanitized") =>
              LET out == reqs'[r].body.title
              IN  /\ \A i \in 1..Len(out) : out[i] \notin {"<", ">"}
                  /\ (out = <<>> \/ (out[1] # Space /\ out[Len(out)] # Space))
                  /\ SanitizeInput(out) = out]_vars

\* C27: the title '< a' has been through sanitizeRequest and is ' a', with the
\* space that followed the removed character in front
SanitizedWithLeadingSpace ==
    /\ At(1, "POST /sanitized", "validated_handler")
    /\ reqs[1].body.password = <<"<", Space, "a">>
    /\ reqs[1].body.title = <<Space, "a">>

\* the user of session s is absent or is a row of users, by uid, username and
\* email
SessionUserExists(s) ==
    sessions[s].user # NoUser =>
        \E u \in users : sessions[s].user = SessionUser(u.uid, u.username, u.email)

\* this step gives session s the user of row u: it is the answer to a login
\* of that session whose password is the one hashed in the row, or to the
\* registration of that session that inserts the row
SetByLoginOrRegister(s, u) ==
    \E r \in Req :
        /\ reqs[r].sid = s /\ Steps(r)
        /\ \/ /\ At(r, "POST /login", "login_compare")
              /\ u \in users
              /\ Compare(reqs[r].body.password, u.password)
           \/ /\ At(r, "POST /register", "reg_insert")
              /\ u \in users' \ users

\* C28, but for its last part: a session's user is absent or a row of users,
\* and a step that gives a session a user is a login whose password matched
\* the row or the registration that made the row
SessionUserIsAuthenticated ==
    [][\A s \in Sid :
          /\ SessionUserExists(s)'
          /\ (sessions'[s].user # sessions[s].user /\ sessions'[s].user # NoUser) =>
                 \E u \in users' : /\ sessions'[s].user = SessionUser(u.uid, u.username, u.email)
                                   /\ SetByLoginOrRegister(s, u)]_vars

AnonymousUntilLogin ==
    [][\A s \in Sid :
          (sessions[s].user = NoUser /\ sessions'[s].user # NoUser) =>
              \E r \in Req : /\ reqs[r].sid = s /\ Steps(r)
                             /\ \/ At(r, "POST /login", "login_compare")
                                \/ At(r, "POST /register", "reg_insert")]_vars

\* C29: a POST /logout of a session with a user empties the stored session
\* and clears the session cookie; from then on the session has no user until
\* a login of it succeeds, and its requests to the dashboard and to
\* add-project are redirected to /login
LogoutEndsSession ==
    [][\A s \in Sid :
          /\ \A r \in Req :
                 (Arriving(r, s, "POST /logout") /\ reqs'[r].handler) =>
                     /\ sessions'[s] = EmptySession
                     /\ reqs'[r].resp.cleared = SessionCookieName
          /\ (sessions[s].user = NoUser /\ sessions'[s].user # NoUser) =>
                 \E r \in Req : /\ reqs[r].sid = s /\ Steps(r)
                                /\ \/ At(r, "POST /login", "login_compare")
                                   \/ At(r, "POST /register", "reg_insert")
          /\ \A r \in Req :
                 (/\ sessions[s].user = NoUser
                  /\ \E route \in {"GET /dashboard", "POST /add-project"} : Arriving(r, s, route)) =>
                     reqs'[r].resp = Redirect("/login")]_vars

\* C29: the logout of client 1 has been answered, clearing a cookie named
\* 'connect.sid', while its add-project was in flight; the add-project was
\* answered afterwards, and the destroyed session is stored again with its user
LoggedOutSessionHasUser ==
    /\ reqs[1].pc = "done" /\ reqs[1].route = "POST /logout" /\ reqs[1].handler
    /\ reqs[1].resp.cleared = "connect.sid"
    /\ reqs[2].pc = "done" /\ reqs[2].route = "POST /add-project"
    /\ reqs[2].resp = Redirect("/dashboard")
    /\ sessions[1].user.uid = 1
    /\ sessions[1].successMessage = "Project added successfully!"

\* the flash messages a session holds
Flash(sess) == {sess.successMessage, sess.errorMessage} \ {""}

\* the answer to a login of session s that succeeds uses the returnTo the
\* session holds as its redirect target, and the session holds none afterwards
ReturnToUsedOnce ==
    [][\A r \in Req :
          (/\ At(r, "POST /login", "login_compare") /\ Steps(r)
           /\ reqs'[r].resp.kind = "redirect") =>
              LET s == reqs[r].sid
              IN  /\ reqs'[r].resp.target =
                         IF sessions[s].returnTo # "" THEN sessions[s].returnTo ELSE "/dashboard"
                  /\ sessions'[s].returnTo = ""]_vars

\* a dashboard render shows the flash messages the session holds, and the
\* session holds none afterwards
FlashShownOnce ==
    [][\A r \in Req : \A s \in Sid :
          (Arriving(r, s, "GET /dashboard") /\ reqs'[r].handler) =>
              /\ reqs'[r].resp.errors = Flash(sessions[s])
              /\ Flash(sessions'[s]) = {}]_vars

\* C30: the returnTo of a session is the redirect target of its next login
\* that succeeds and is gone from the session afterwards; the successMessage
\* and errorMessage of a session are shown by its next dashboard render and
\* are gone from the session afterwards
OneShotValuesReadOnce ==
    [][/\ \A r \in Req :
              (/\ At(r, "POST /login", "login_compare") /\ Steps(r)
               /\ reqs'[r].resp.kind = "redirect") =>
                  /\ reqs'[r].resp.target =
                         IF sessions[reqs[r].sid].returnTo # ""
                         THEN sessions[reqs[r].sid].returnTo ELSE "/dashboard"
                  /\ sessions'[reqs[r].sid].returnTo = ""
       /\ \A r \in Req : \A s \in Sid :
              (Arriving(r, s, "GET /dashboard") /\ reqs'[r].handler) =>
                  /\ reqs'[r].resp.errors = Flash(sessions[s])
                  /\ Flash(sessions'[s]) = {}]_vars

\* C30: while the login of client 1 was in flight its request for the guarded
\* route was redirected to /login and left returnTo in the session; the login
\* was then answered with a redirect to /dashboard, and the returnTo is gone
\* from the session unused
ReturnToLostToLogin ==
    /\ reqs[1].pc = "done" /\ reqs[1].route = "POST /login"
    /\ reqs[1].resp = Redirect("/dashboard")
    /\ reqs[2].pc = "done" /\ reqs[2].route = "GET /guarded" /\ ~reqs[2].handler
    /\ reqs[2].resp = Redirect("/login")
    /\ sessions[1].user.uid = 1
    /\ sessions[1].returnTo = ""

\* C30: the dashboard of client 1 was rendered at once with 'Project added
\* successfully!' and the session still holds the message
FlashShownAndKept ==
    /\ reqs[1].pc = "done" /\ reqs[1].route = "GET /dashboard"
    /\ reqs[1].resp = Render(200, "dashboard", {"Project added successfully!"})
    /\ sessions[1].successMessage = "Project added successfully!"

====
